---- MODULE Spec2Model ----
(***************************************************************************)
(* A model of WebXRSessionManager                                          *)
(* (packages/dev/core/src/XR/webXRSessionManager.ts): the session          *)
(* lifecycle, the XR driven render loop, the render state / layer wrapper  *)
(* / render-target-texture provider, and the reference spaces.             *)
(*                                                                         *)
(* The program is single threaded.  Every action below is one synchronous  *)
(* run of a method, of a promise continuation or of an event listener.     *)
(* The platform (navigator.xr, XRSession) and the engine's frame queue are *)
(* the environment: what they answer is drawn with \E.                     *)
(*                                                                         *)
(* The variable "effects" holds, for the most recent action, the name of   *)
(* the operation followed by the statements with an outside-visible effect *)
(* that it executed, in program order.                                     *)
(***************************************************************************)
EXTENDS Integers, Sequences, FiniteSets, Bags, TLC

\* Number of initializeSessionAsync calls explored (each may be granted a session).
MaxRequests == 2

\* Number of session.end() calls per session after which exitXRAsync is no longer explored.
MaxEndCalls == 2

Sessions == 1..MaxRequests
NoSession == 0

\* XRSessionMode values used as inputs of initializeSessionAsync.
Modes == {"immersive-vr", "inline"}

\* Number of setReferenceSpaceTypeAsync calls that can be in progress together.
MaxRefCalls == 2

\* XRReferenceSpaceType values used as inputs of setReferenceSpaceTypeAsync.
RefTypes == {"local-floor", "viewer"}

\* The initial defaultHeightCompensation, 1.7, in tenths of a unit.
DefaultHeightCompensation == 17

\* Identities of the callbacks that can be registered on an Observable.
Observers == {"o1"}

\* The frame handles and timestamps the device passes to the render function;
\* currentFrame holds NoFrame and currentTimestamp InitialTimestamp before
\* the first frame.
NoFrame == "null"

Frames == {"frameA", "frameB"}

InitialTimestamp == -1

Timestamps == {10, 20}

\* The callbacks handed to runInXRFrame, and the cap on the count of their runs.
Callbacks == {"cb"}

MaxCallbackRuns == 2

\* A number that is null or undefined.
NullNumber == -999

\* The values written to fixedFoveation, in tenths: -0.5, 0, 0.4, 1, 1.5 and undefined.
Foveations == {-5, 0, 4, 10, 15, NullNumber}

\* Number of IsSessionSupportedAsync probes per mode that can be pending together.
MaxProbes == 2

\* The scenes a session is moved between; a manager constructed from an
\* engine has no scene until the first move.
Scenes == {"sceneA", "sceneB"}

NoScene == "undefined"

\* Number of moveXRToScene calls that can be suspended together.
MaxMoves == 1

\* Number of _initializeScene runs of one experience.
MaxSceneInits == 2

VARIABLES
    navigatorXR,        \* navigator.xr: "absent", "browser" or "native" (navigator.xr.native)
    xrNavigator,        \* _xrNavigator has been assigned (initializeAsync ran)
    persistent,         \* constructed from an engine (TRUE) or from a scene (FALSE)
    session,            \* this.session: NoSession while undefined
    sessionMode,        \* this._sessionMode: "undefined" until assigned
    inXRSession,
    baseLayerWrapper,   \* "null", "NativeXRLayerWrapper" or "WebXRWebGLLayerWrapper"
    baseLayerRTTProvider,   \* "null" or "provider"
    renderState,        \* this._renderState: "null", "state" (no baseLayer), "state+baseLayer", "state+movedLayer"
    renderTarget,       \* this._renderTarget: "null" or "target"
    onXRSessionInit,    \* observer lists
    onXRSessionEnded,
    onXRFrameObservable,
    onXRReferenceSpaceChanged,
    referenceSpace,     \* this._referenceSpace
    baseReferenceSpace,
    viewerReferenceSpace,
    defaultHeightCompensation,  \* in tenths of a unit
    refCalls,           \* the setReferenceSpaceTypeAsync calls in progress (a bag)
    customAnimationFrameRequester,  \* engine.customAnimationFrameRequester: "null" or "xr"
    framebufferDimensionsObject,    \* engine.framebufferDimensionsObject: "null" or "dims"
    windowFrameQueued,  \* the engine has a window.requestAnimationFrame callback queued
    sessState,          \* platform: "none", "active" or "ended", per session
    endCalls,           \* platform: number of session.end() calls, per session
    endPromises,        \* platform: promises of session.end() not yet settled, per session
    endListener,        \* platform: the once-listener for "end" is registered, per session
    rafQueued,          \* platform: a session.requestAnimationFrame callback is queued
    pendingSession,     \* pending requestSession promises, per mode
    effects,            \* the statements run by the last action, in program order
    notified,           \* the notification sent by the last action: what its observers read
    initFired,          \* per session: onXRSessionInit.notifyObservers(session) was called
    endHandlerRuns,     \* per session: runs of the "end" listener
    providerDisposed,   \* dispose() has been called on some provider
    currentFrame,
    currentTimestamp,
    inXRFrameLoop,
    frameOnce,          \* the callbacks added to onXRFrameObservable with addOnce
    callbackRuns,       \* per callback handed to runInXRFrame: the number of its runs
    layerFoveation,     \* platform: fixedFoveation of the XR layer, in tenths; NullNumber when unsupported
    probes,             \* pending isSessionSupported / supportsSession promises, per mode
    scene,              \* this.scene: "undefined" for a manager constructed from an engine
    onXRSessionMoved,
    pendingLayerInit,   \* the hookUp of each moveXRToScene call suspended at initializeXRLayerAsync (a bag)
    experience,         \* the WebXRDefaultExperience: its fields and what was disposed
    pendingBaseMove     \* WebXRDefaultExperience.moveXRToScene calls suspended at the base migration

vars == << navigatorXR, xrNavigator, persistent, session, sessionMode, inXRSession,
           baseLayerWrapper, baseLayerRTTProvider, renderState, renderTarget,
           onXRSessionInit, onXRSessionEnded, onXRFrameObservable,
           customAnimationFrameRequester, framebufferDimensionsObject, windowFrameQueued,
           sessState, endCalls, endPromises, endListener, rafQueued, pendingSession,
           effects, notified,
           initFired, endHandlerRuns, providerDisposed, onXRReferenceSpaceChanged,
           referenceSpace, baseReferenceSpace, viewerReferenceSpace,
           defaultHeightCompensation, refCalls,
           currentFrame, currentTimestamp, inXRFrameLoop, frameOnce, callbackRuns,
           layerFoveation, probes, scene, onXRSessionMoved, pendingLayerInit,
           experience, pendingBaseMove >>

managerVars == << session, sessionMode, inXRSession, baseLayerWrapper, baseLayerRTTProvider,
                  renderState, renderTarget >>
observerVars == << onXRSessionInit, onXRSessionEnded, onXRFrameObservable,
                  onXRReferenceSpaceChanged >>
refVars == << referenceSpace, baseReferenceSpace, viewerReferenceSpace,
              defaultHeightCompensation, refCalls >>
engineVars == << customAnimationFrameRequester, framebufferDimensionsObject, windowFrameQueued >>
platformVars == << sessState, endCalls, endPromises, endListener, rafQueued, pendingSession >>
constVars == << navigatorXR, persistent >>
historyVars == << initFired, endHandlerRuns, providerDisposed >>
frameVars == << currentFrame, currentTimestamp, inXRFrameLoop, frameOnce, callbackRuns >>
accessVars == << layerFoveation, probes >>
moveVars == << scene, onXRSessionMoved, pendingLayerInit >>
experienceVars == << experience, pendingBaseMove >>
peripheralVars == << accessVars, moveVars, experienceVars >>

----------------------------------------------------------------------------
\* Helpers

\* get isNative(): this._xrNavigator.xr.native ?? false
isNative == navigatorXR = "native"

\* _xrNavigator.xr can be dereferenced
HasXR == xrNavigator /\ navigatorXR # "absent"

\* An XRReferenceSpace: the type it was requested with, the session that
\* granted it and the vertical offset (tenths of a unit) applied to it with
\* getOffsetReferenceSpace.
NoSpace == [type |-> "undefined", sess |-> NoSession, offset |-> 0]

Space(type, sess) == [type |-> type, sess |-> sess, offset |-> 0]

\* No notification was sent.
\* number is the value an accessor was handed or gave back; also is the
\* observer list of a second notification sent by the same action; options
\* is the options object handed to CreateAsync or CreatePersistentAsync.
NoNotification ==
    [obs |-> "none", to |-> {}, sess |-> NoSession, mode |-> "undefined", inXR |-> FALSE,
     requester |-> "null", dims |-> "null", windowFrameQueued |-> FALSE,
     space |-> NoSpace, written |-> NoSpace,
     frame |-> NoFrame, timestamp |-> InitialTimestamp, inXRFrameLoop |-> FALSE,
     number |-> NullNumber, also |-> {}, options |-> {}]

\* The position of the first occurrence of e in the sequence q, 0 when absent.
IndexOf(q, e) ==
    IF \E i \in 1..Len(q) : q[i] = e
    THEN CHOOSE i \in 1..Len(q) : q[i] = e /\ \A j \in 1..(i - 1) : q[j] # e
    ELSE 0

\* e and f occur in q, e before the first f.
Before(q, e, f) ==
    /\ IndexOf(q, e) > 0
    /\ IndexOf(q, f) > 0
    /\ IndexOf(q, e) < IndexOf(q, f)

Count(q, e) == Cardinality({i \in 1..Len(q) : q[i] = e})

\* The operation the last action ran.
LastOp == IF Len(effects) > 0 THEN effects[1] ELSE "none"

\* this._baseLayerRTTProvider?.getFramebufferDimensions() || null
GetFramebufferDimensions(provider) == IF provider = "null" THEN "null" ELSE "dims"

\* getRenderTargetTextureForEye / getRenderTargetTextureForView:
\* this._baseLayerRTTProvider?.getRenderTargetTextureFor...(x) || null
\* (providerAnswer is what the provider returns when there is one)
getRenderTargetTextureForEye(provider, providerAnswer) ==
    IF provider = "null" THEN "null" ELSE providerAnswer

getRenderTargetTextureForView(provider, providerAnswer) ==
    IF provider = "null" THEN "null" ELSE providerAnswer

\* trySetViewportForView: this._baseLayerRTTProvider?.trySetViewportForView(viewport, view) || false
trySetViewportForView(provider, providerAnswer) ==
    IF provider = "null" THEN FALSE ELSE providerAnswer

\* engine._renderLoop(): renders, then queues the next frame on the custom
\* requester when one is installed (its requestAnimationFrame is
\* this.session.requestAnimationFrame) and on the window otherwise.
\* Gives the new << rafQueued, windowFrameQueued >>.
EngineRenderLoop(requester, sess, raf, win) ==
    IF requester = "xr"
    THEN IF sess \in Sessions
         THEN << [raf EXCEPT ![sess] = TRUE], win >>
         ELSE << raf, win >>
    ELSE << raf, TRUE >>

\* The fields of a WebXRDefaultExperience. options is the set of option keys
\* that are set to true; input, pointerSelection, teleportation and
\* nearInteraction hold 0 while undefined and otherwise the number of the
\* _initializeScene run that created them; selectionFeature is the pointer
\* selection the teleportation is wired to and farInteractionFeature the one
\* handed to the near interaction; baseScene is the scene of the base
\* experience's camera and features; disposed is the set of fields whose
\* object has been disposed.
OptionKeys == {"disableDefaultUI", "disablePointerSelection", "disableTeleportation",
               "disableNearInteraction", "useStablePlugins"}

NoExperience ==
    [created |-> FALSE, persistent |-> FALSE, options |-> {}, baseExperience |-> FALSE,
     input |-> 0, pointerSelection |-> 0, teleportation |-> 0, nearInteraction |-> 0,
     selectionFeature |-> 0, farInteractionFeature |-> 0, baseScene |-> NoScene,
     renderTarget |-> FALSE, enterExitUI |-> FALSE, disposed |-> {}, initializations |-> 0]

----------------------------------------------------------------------------
\* The state after construction (constructor, lines 106-117, and the field
\* initialisers): no session, empty observables, the engine on its default loop.

Init ==
    /\ navigatorXR \in {"absent", "browser", "native"}
    /\ xrNavigator = FALSE
    /\ persistent \in BOOLEAN
    /\ session = NoSession
    /\ sessionMode = "undefined"
    /\ inXRSession = FALSE
    /\ baseLayerWrapper = "null"
    /\ baseLayerRTTProvider = "null"
    /\ renderState = "null"
    /\ renderTarget = "null"
    /\ onXRSessionInit = {}
    /\ onXRSessionEnded = {}
    /\ onXRFrameObservable = {}
    /\ customAnimationFrameRequester = "null"
    /\ framebufferDimensionsObject = "null"
    /\ windowFrameQueued = TRUE
    /\ sessState = [s \in Sessions |-> "none"]
    /\ endCalls = [s \in Sessions |-> 0]
    /\ endPromises = [s \in Sessions |-> 0]
    /\ endListener = [s \in Sessions |-> FALSE]
    /\ rafQueued = [s \in Sessions |-> FALSE]
    /\ pendingSession = [m \in Modes |-> 0]
    /\ effects = << >>
    /\ notified = NoNotification
    /\ initFired = [s \in Sessions |-> FALSE]
    /\ endHandlerRuns = [s \in Sessions |-> 0]
    /\ providerDisposed = FALSE
    /\ onXRReferenceSpaceChanged = {}
    /\ referenceSpace = NoSpace
    /\ baseReferenceSpace = NoSpace
    /\ viewerReferenceSpace = NoSpace
    /\ defaultHeightCompensation = DefaultHeightCompensation
    /\ refCalls = EmptyBag
    /\ currentFrame = NoFrame
    /\ currentTimestamp = InitialTimestamp
    /\ inXRFrameLoop = FALSE
    /\ frameOnce = {}
    /\ callbackRuns = [c \in Callbacks |-> 0]
    /\ layerFoveation = NullNumber
    /\ probes = [m \in Modes |-> 0]
    /\ scene = IF persistent THEN NoScene ELSE "sceneA"
    /\ onXRSessionMoved = {}
    /\ pendingLayerInit = EmptyBag
    /\ experience = NoExperience
    /\ pendingBaseMove = EmptyBag

----------------------------------------------------------------------------
\* Observable.add on the observables of the session lifecycle.

AddSessionInitObserver(o) ==
    /\ o \notin onXRSessionInit
    /\ onXRSessionInit' = onXRSessionInit \cup {o}
    /\ effects' = << "onXRSessionInit.add" >>
    /\ notified' = NoNotification
    /\ UNCHANGED << xrNavigator, managerVars, onXRSessionEnded, onXRFrameObservable,
                    onXRReferenceSpaceChanged,
                    engineVars, platformVars, constVars, peripheralVars, frameVars, refVars, historyVars >>

AddSessionEndedObserver(o) ==
    /\ o \notin onXRSessionEnded
    /\ onXRSessionEnded' = onXRSessionEnded \cup {o}
    /\ effects' = << "onXRSessionEnded.add" >>
    /\ notified' = NoNotification
    /\ UNCHANGED << xrNavigator, managerVars, onXRSessionInit, onXRFrameObservable,
                    onXRReferenceSpaceChanged,
                    engineVars, platformVars, constVars, peripheralVars, frameVars, refVars, historyVars >>

AddFrameObserver(o) ==
    /\ o \notin onXRFrameObservable
    /\ onXRFrameObservable' = onXRFrameObservable \cup {o}
    /\ effects' = << "onXRFrameObservable.add" >>
    /\ notified' = NoNotification
    /\ UNCHANGED << xrNavigator, managerVars, onXRSessionInit, onXRSessionEnded,
                    onXRReferenceSpaceChanged,
                    engineVars, platformVars, constVars, peripheralVars, frameVars, refVars, historyVars >>

----------------------------------------------------------------------------
\* initializeAsync (lines 266-273): _xrNavigator = navigator; rejects when
\* navigator.xr is absent.

InitializeOutcome_FirstCallOnly(xr, initialised) ==
    IF xr = "absent" /\ ~initialised THEN "reject" ELSE "resolve"

\* lines 269-272, with xr = navigator.xr; initialised tells whether an
\* earlier call assigned _xrNavigator, which the code does not read.
InitializeOutcome(xr, initialised) ==
    IF xr = "absent" THEN "reject" ELSE "resolve"

initializeAsync ==
    /\ xrNavigator' = TRUE
    /\ effects' = << "initializeAsync", InitializeOutcome(navigatorXR, xrNavigator) >>
    /\ notified' = NoNotification
    /\ UNCHANGED << managerVars, observerVars, engineVars, platformVars, constVars, peripheralVars, frameVars, refVars, historyVars >>

----------------------------------------------------------------------------
\* runXRRenderLoop (lines 343-376), as a function of the fields it reads.
\* Gives the new requester, framebuffer dimensions, session frame queue and
\* window frame queue; "ran" tells whether the early return was not taken.
\* (this.engine is assigned by the constructor and never cleared.)

RunXRRenderLoopResult(inXR, sess, provider, requester, dims, raf, win) ==
    IF ~inXR
    THEN [ran |-> FALSE, requester |-> requester, dims |-> dims, raf |-> raf, win |-> win]
    ELSE LET q == EngineRenderLoop("xr", sess, raf, FALSE)
         IN  [ran |-> TRUE, requester |-> "xr", dims |-> GetFramebufferDimensions(provider),
              raf |-> q[1], win |-> q[2]]

runXRRenderLoop ==
    LET r == RunXRRenderLoopResult(inXRSession, session, baseLayerRTTProvider,
                                   customAnimationFrameRequester, framebufferDimensionsObject,
                                   rafQueued, windowFrameQueued)
    IN  /\ customAnimationFrameRequester' = r.requester
        /\ framebufferDimensionsObject' = r.dims
        /\ rafQueued' = r.raf
        /\ windowFrameQueued' = r.win
        /\ effects' = IF r.ran
                      THEN << "runXRRenderLoop", "customAnimationFrameRequester:=xr",
                              "framebufferDimensionsObject:=dims", "cancelAnimationFrame",
                              "engine._renderLoop" >>
                      ELSE << "runXRRenderLoop" >>
        /\ notified' = NoNotification
        /\ UNCHANGED << xrNavigator, managerVars, observerVars, constVars, peripheralVars, frameVars, refVars, historyVars,
                        sessState, endCalls, endPromises, endListener, pendingSession >>

----------------------------------------------------------------------------
\* initializeSessionAsync (lines 281-322).

\* Requests that are pending or were granted.
RequestsInUse ==
    Cardinality({s \in Sessions : sessState[s] # "none"})
    + pendingSession["immersive-vr"] + pendingSession["inline"]

\* The call itself (line 282): one navigator.xr.requestSession call, whose
\* promise is pending afterwards.
initializeSessionAsync(mode) ==
    /\ HasXR
    /\ RequestsInUse < MaxRequests
    /\ pendingSession' = [pendingSession EXCEPT ![mode] = @ + 1]
    /\ effects' = << "initializeSessionAsync", "requestSession" >>
    /\ notified' = NoNotification
    /\ UNCHANGED << xrNavigator, managerVars, observerVars, engineVars, constVars, peripheralVars, frameVars, refVars,
                    sessState, endCalls, endPromises, endListener, rafQueued, historyVars >>

\* The session the platform creates next.
FreshSession(s) ==
    /\ s \in Sessions
    /\ sessState[s] = "none"
    /\ \A t \in Sessions : t < s => sessState[t] # "none"

\* The value of inXRSession that the onXRSessionInit observers read
\* (lines 285-286: the notification is sent before the flag is assigned).
InXRSessionAtInitNotification(before) == before

\* onXRSessionInit.notifyObservers(session) at line 285, on the record of
\* the sessions that were announced.
NotifySessionInit_Skipped(fired, s) == fired

NotifySessionInit(fired, s) == [fired EXCEPT ![s] = TRUE]

\* The statements of the continuation, lines 283-320, in program order.
SessionGrantedEffects ==
    << "then", "session:=", "sessionMode:=", "notify onXRSessionInit", "inXRSession:=true",
       "addEventListener end", "return session" >>

\* The continuation of requestSession (lines 282-321) for a granted session s.
\* observerRunsLoop: an onXRSessionInit observer calls runXRRenderLoop.
SessionGranted(mode, s, observerRunsLoop) ==
    /\ pendingSession[mode] > 0
    /\ FreshSession(s)
    /\ observerRunsLoop => onXRSessionInit # {}
    /\ LET seen == InXRSessionAtInitNotification(inXRSession)
           r == IF observerRunsLoop
                THEN RunXRRenderLoopResult(seen, s, baseLayerRTTProvider,
                                           customAnimationFrameRequester,
                                           framebufferDimensionsObject, rafQueued,
                                           windowFrameQueued)
                ELSE [ran |-> FALSE, requester |-> customAnimationFrameRequester,
                      dims |-> framebufferDimensionsObject, raf |-> rafQueued,
                      win |-> windowFrameQueued]
       IN  /\ pendingSession' = [pendingSession EXCEPT ![mode] = @ - 1]
           /\ sessState' = [sessState EXCEPT ![s] = "active"]
           /\ session' = s
           /\ sessionMode' = mode
           /\ notified' = [NoNotification EXCEPT !.obs = "onXRSessionInit",
                                                 !.to = onXRSessionInit,
                                                 !.sess = s, !.mode = mode, !.inXR = seen]
           /\ initFired' = NotifySessionInit(initFired, s)
           /\ customAnimationFrameRequester' = r.requester
           /\ framebufferDimensionsObject' = r.dims
           /\ rafQueued' = r.raf
           /\ windowFrameQueued' = r.win
           /\ inXRSession' = TRUE
           /\ endListener' = [endListener EXCEPT ![s] = TRUE]
           /\ effects' = SessionGrantedEffects
    /\ UNCHANGED << xrNavigator, baseLayerWrapper, baseLayerRTTProvider, renderState,
                    renderTarget, observerVars, constVars, peripheralVars, frameVars, refVars, endCalls, endPromises, endHandlerRuns,
                    providerDisposed >>

\* requestSession is rejected: there is no rejection handler in
\* initializeSessionAsync, the returned promise rejects with the same reason.
SessionRejected_ClearsFlag(mode) ==
    /\ pendingSession[mode] > 0
    /\ pendingSession' = [pendingSession EXCEPT ![mode] = @ - 1]
    /\ inXRSession' = FALSE
    /\ effects' = << "requestSession rejected", "reject" >>
    /\ notified' = NoNotification
    /\ UNCHANGED << xrNavigator, session, sessionMode, baseLayerWrapper,
                    baseLayerRTTProvider, renderState, renderTarget, observerVars,
                    engineVars, constVars, peripheralVars, frameVars, refVars, sessState, endCalls, endPromises, endListener, rafQueued,
                    historyVars >>

SessionRejected(mode) ==
    /\ pendingSession[mode] > 0
    /\ pendingSession' = [pendingSession EXCEPT ![mode] = @ - 1]
    /\ effects' = << "requestSession rejected", "reject" >>
    /\ notified' = NoNotification
    /\ UNCHANGED << xrNavigator, managerVars, observerVars, engineVars, constVars, peripheralVars, frameVars, refVars,
                    sessState, endCalls, endPromises, endListener, rafQueued, historyVars >>

----------------------------------------------------------------------------
\* exitXRAsync (lines 207-215).

\* The condition of line 208.
ExitXRGuard_SessionOnly(sess, inXR) == sess # NoSession

ExitXRGuard(sess, inXR) == sess # NoSession /\ inXR

\* The statements exitXRAsync runs.
ExitXREffects(sess, inXR) ==
    IF ExitXRGuard(sess, inXR)
    THEN << "inXRSession:=false", "session.end" >>
    ELSE << "resolve" >>

exitXRAsync ==
    /\ ExitXRGuard(session, inXRSession) => endCalls[session] < MaxEndCalls
    /\ IF ExitXRGuard(session, inXRSession)
       THEN /\ inXRSession' = FALSE
            /\ endCalls' = [endCalls EXCEPT ![session] = @ + 1]
            /\ endPromises' = [endPromises EXCEPT ![session] = @ + 1]
       ELSE UNCHANGED << inXRSession, endCalls, endPromises >>
    /\ effects' = << "exitXRAsync" >> \o ExitXREffects(session, inXRSession)
    /\ notified' = NoNotification
    /\ UNCHANGED << xrNavigator, session, sessionMode, baseLayerWrapper,
                    baseLayerRTTProvider, renderState, renderTarget, observerVars,
                    engineVars, constVars, peripheralVars, frameVars, refVars, sessState, endListener, rafQueued,
                    pendingSession, historyVars >>

EndSettlement_Rethrows(rejected) ==
    IF rejected THEN << "reject" >> ELSE << "resolve" >>

\* Lines 210-212: the promise exitXRAsync returns is the promise of
\* session.end() with a rejection handler that logs a warning.
EndSettlement(rejected) ==
    IF rejected THEN << "catch", "Logger.Warn", "resolve" >> ELSE << "resolve" >>

\* The promise of a session.end() call made by exitXRAsync settles: it
\* resolves once the session has shut down, or rejects.
SessionEndSettled(s, rejected) ==
    /\ endPromises[s] > 0
    /\ ~rejected => sessState[s] = "ended"
    /\ endPromises' = [endPromises EXCEPT ![s] = @ - 1]
    /\ effects' = << "session.end settled", IF rejected THEN "rejected" ELSE "resolved" >>
                  \o EndSettlement(rejected)
    /\ notified' = NoNotification
    /\ UNCHANGED << xrNavigator, managerVars, observerVars, engineVars, constVars,
                    peripheralVars, frameVars, refVars, sessState, endCalls, endListener,
                    rafQueued, pendingSession, historyVars >>

----------------------------------------------------------------------------
\* The "end" listener registered at lines 289-318.

\* Lines 311-313: the provider's dispose() is called.
EndListenerDisposes_Always(native, provider) == provider # "null"

EndListenerDisposes(native, provider) == native /\ provider # "null"

\* What an onXRSessionEnded observer reads at line 295: inXRSession has been
\* assigned (line 292), the engine has not been touched yet (lines 297-307).
EndedObserverView_EngineFirst(to, requester, dims, win) ==
    [NoNotification EXCEPT !.obs = "onXRSessionEnded", !.to = to, !.inXR = FALSE,
                           !.requester = "null", !.dims = "null",
                           !.windowFrameQueued = TRUE]

EndedObserverView(to, requester, dims, win) ==
    [NoNotification EXCEPT !.obs = "onXRSessionEnded", !.to = to, !.inXR = FALSE,
                           !.requester = requester, !.dims = dims,
                           !.windowFrameQueued = win]

\* The statements of the listener, in program order.
EndListenerEffects(native, provider) ==
    << "end listener", "inXRSession:=false", "notify onXRSessionEnded",
       "framebufferDimensionsObject:=null", "restoreDefaultFramebuffer",
       "customAnimationFrameRequester:=null", "engine._renderLoop" >>
    \o (IF EndListenerDisposes(native, provider) THEN << "provider.dispose" >> ELSE << >>)
    \o << "_baseLayerRTTProvider:=null", "_baseLayerWrapper:=null" >>

\* The platform ends session s (after session.end() or on the device's own
\* initiative) and dispatches "end"; callbacks queued with
\* session.requestAnimationFrame are dropped.  The listener was added with
\* { once: true }.
SessionEnd(s) ==
    /\ sessState[s] = "active"
    /\ sessState' = [sessState EXCEPT ![s] = "ended"]
    /\ IF endListener[s]
       THEN /\ endListener' = [endListener EXCEPT ![s] = FALSE]
            /\ endHandlerRuns' = [endHandlerRuns EXCEPT ![s] = @ + 1]
            /\ inXRSession' = FALSE
            /\ notified' = EndedObserverView(onXRSessionEnded, customAnimationFrameRequester,
                                             framebufferDimensionsObject, windowFrameQueued)
            /\ framebufferDimensionsObject' = "null"
            /\ customAnimationFrameRequester' = "null"
            /\ LET q == EngineRenderLoop("null", session, [rafQueued EXCEPT ![s] = FALSE],
                                         windowFrameQueued)
               IN  /\ rafQueued' = q[1]
                   /\ windowFrameQueued' = q[2]
            /\ providerDisposed' = (providerDisposed
                                    \/ EndListenerDisposes(isNative, baseLayerRTTProvider))
            /\ baseLayerRTTProvider' = "null"
            /\ baseLayerWrapper' = "null"
            /\ effects' = EndListenerEffects(isNative, baseLayerRTTProvider)
       ELSE /\ effects' = << "end" >>
            /\ notified' = NoNotification
            /\ rafQueued' = [rafQueued EXCEPT ![s] = FALSE]
            /\ UNCHANGED << endListener, endHandlerRuns, inXRSession, engineVars,
                            providerDisposed, baseLayerRTTProvider, baseLayerWrapper >>
    /\ UNCHANGED << xrNavigator, session, sessionMode, renderState, renderTarget,
                    observerVars, constVars, peripheralVars, frameVars, refVars, endCalls, endPromises, pendingSession, initFired >>

----------------------------------------------------------------------------
\* dispose(all) (lines 184-201).

\* Line 186: dispose calls exitXRAsync.
DisposeExits_Always(all) == inXRSession

DisposeExits(all) == inXRSession /\ (~persistent \/ all)

\* Line 194.
DisposeFull_AllOnly(all) == all

DisposeFull_NonPersistentOnly(all) == ~persistent

DisposeFull(all) == ~persistent \/ all

\* The argument as it appears in the statements of the call.
AllArgument(all) == IF all THEN "all=true" ELSE "all=false"

\* dispose can run within the explored number of session.end() calls.
DisposeGuard(all) ==
    (DisposeExits(all) /\ ExitXRGuard(session, inXRSession))
        => endCalls[session] < MaxEndCalls

\* The assignments of dispose(all), lines 185-200.
DisposeAssignments(all) ==
    /\ IF DisposeExits(all) /\ ExitXRGuard(session, inXRSession)
       THEN /\ inXRSession' = FALSE
            /\ endCalls' = [endCalls EXCEPT ![session] = @ + 1]
            /\ endPromises' = [endPromises EXCEPT ![session] = @ + 1]
       ELSE UNCHANGED << inXRSession, endCalls, endPromises >>
    /\ onXRFrameObservable' = {}
    /\ frameOnce' = {}
    /\ onXRReferenceSpaceChanged' = {}
    /\ onXRSessionInit' = {}
    /\ IF DisposeFull(all)
       THEN /\ renderTarget' = "null"
            /\ renderState' = "null"
            /\ onXRSessionEnded' = {}
       ELSE UNCHANGED << renderTarget, renderState, onXRSessionEnded >>

\* The statements of dispose(all), in program order.
DisposeStatements(all) ==
    << "dispose", AllArgument(all) >>
    \o (IF DisposeExits(all) THEN ExitXREffects(session, inXRSession) ELSE << >>)
    \o << "onXRFrameObservable.clear", "onXRReferenceSpaceChanged.clear",
          "onXRSessionInit.clear" >>
    \o (IF DisposeFull(all)
        THEN << "_renderTarget:=null", "_renderState:=null",
                "onXRSessionEnded.clear" >>
        ELSE << >>)

dispose(all) ==
    /\ DisposeGuard(all)
    /\ DisposeAssignments(all)
    /\ effects' = DisposeStatements(all)
    /\ notified' = NoNotification
    /\ UNCHANGED << xrNavigator, session, sessionMode, baseLayerWrapper,
                    baseLayerRTTProvider, engineVars, constVars, peripheralVars, refVars,
                    sessState, endListener, rafQueued, pendingSession, historyVars,
                    currentFrame, currentTimestamp, inXRFrameLoop, callbackRuns >>

----------------------------------------------------------------------------
\* The renderFunction installed by runXRRenderLoop (lines 351-366), called by
\* the device with a frame of session s.

\* runInXRFrame (lines 534-540): what becomes of the callback.
RunInXRFrameBranch(inLoop, inXR, ignoreIfNotInSession) ==
    IF inLoop THEN "callback"
    ELSE IF inXR \/ ~ignoreIfNotInSession THEN "addOnce" ELSE "ignored"

\* The run counts after the callbacks cbs ran.
Ran(runs, cbs) ==
    [c \in Callbacks |-> IF c \in cbs /\ runs[c] < MaxCallbackRuns THEN runs[c] + 1
                                                                   ELSE runs[c]]

\* A callback that can be handed to runInXRFrame: it was not run and is not
\* waiting for a frame.
Unused(callback) == callbackRuns[callback] = 0 /\ callback \notin frameOnce

\* The argument as it appears in the statements of the call.
IgnoreArgument(ignoreIfNotInSession) ==
    IF ignoreIfNotInSession THEN "ignoreIfNotInSession=true" ELSE "ignoreIfNotInSession=false"

\* runInXRFrame called outside the notification of a frame.
runInXRFrame(callback, ignoreIfNotInSession) ==
    /\ Unused(callback)
    /\ LET b == RunInXRFrameBranch(inXRFrameLoop, inXRSession, ignoreIfNotInSession)
       IN  /\ frameOnce' = IF b = "addOnce" THEN frameOnce \cup {callback} ELSE frameOnce
           /\ callbackRuns' = IF b = "callback" THEN Ran(callbackRuns, {callback})
                                                ELSE callbackRuns
           /\ effects' = << "runInXRFrame", IgnoreArgument(ignoreIfNotInSession), b >>
    /\ notified' = NoNotification
    /\ UNCHANGED << xrNavigator, managerVars, observerVars, engineVars, platformVars,
                    constVars, peripheralVars, refVars, historyVars, currentFrame, currentTimestamp,
                    inXRFrameLoop >>

\* Lines 356-357: the values stored in currentFrame and currentTimestamp.
StoredFrame_Stale(xrFrame, current) == IF current = NoFrame THEN xrFrame ELSE current

StoredFrame(xrFrame, current) == xrFrame

StoredTimestamp(timestamp, current) == timestamp

\* Observable.notifyObservers with observers added by addOnce (line 537):
\* each is called and unregistered.  Gives the ones still registered.
OnceAfterNotification_Kept(once) == once

OnceAfterNotification(once) == {}

\* The statements of the render function for a frame, in program order.
\* once: the callbacks waiting for the frame; calls: the callbacks a frame
\* observer hands to runInXRFrame during the notification.
RenderFunctionEffects_RenderFirst(once, calls) ==
    << "renderFunction", "currentFrame:=", "currentTimestamp:=", "inXRFrameLoop:=true",
       "framebufferDimensionsObject:=dims", "engine._renderLoop",
       "notify onXRFrameObservable" >>
    \o (IF once # {} THEN << "callback" >> ELSE << >>)
    \o (IF calls # {} THEN << "runInXRFrame", "callback" >> ELSE << >>)
    \o << "framebufferDimensionsObject:=null", "inXRFrameLoop:=false" >>

RenderFunctionEffects(once, calls) ==
    << "renderFunction", "currentFrame:=", "currentTimestamp:=", "inXRFrameLoop:=true",
       "framebufferDimensionsObject:=dims", "notify onXRFrameObservable" >>
    \o (IF once # {} THEN << "callback" >> ELSE << >>)
    \o (IF calls # {} THEN << "runInXRFrame", "callback" >> ELSE << >>)
    \o << "engine._renderLoop", "framebufferDimensionsObject:=null", "inXRFrameLoop:=false" >>

RenderFunctionReturns_Never(inXR) == FALSE

\* Lines 352-354: the render function returns at once outside a session.
RenderFunctionReturns(inXR) == ~inXR

\* The device calls the render function with (timestamp, xrFrame) for the
\* callback queued on session s.  calls: the callbacks a frame observer hands
\* to runInXRFrame while it is notified (inXRFrameLoop is true then, line 535).
Tick(s, timestamp, xrFrame, calls) ==
    /\ rafQueued[s]
    /\ sessState[s] = "active"
    /\ calls \subseteq Callbacks
    /\ calls # {} => /\ inXRSession
                     /\ xrFrame # NoFrame
                     /\ onXRFrameObservable # {}
                     /\ \A c \in calls : Unused(c)
    /\ IF RenderFunctionReturns(inXRSession)
       THEN /\ rafQueued' = [rafQueued EXCEPT ![s] = FALSE]
            /\ effects' = << "renderFunction" >>
            /\ notified' = [NoNotification EXCEPT !.frame = xrFrame, !.timestamp = timestamp]
            /\ UNCHANGED << engineVars, frameVars >>
       ELSE IF xrFrame = NoFrame
       THEN /\ rafQueued' = [rafQueued EXCEPT ![s] = FALSE]
            /\ currentFrame' = StoredFrame(xrFrame, currentFrame)
            /\ currentTimestamp' = StoredTimestamp(timestamp, currentTimestamp)
            /\ effects' = << "renderFunction", "currentFrame:=", "currentTimestamp:=" >>
            /\ notified' = [NoNotification EXCEPT !.frame = xrFrame, !.timestamp = timestamp]
            /\ UNCHANGED << engineVars, inXRFrameLoop, frameOnce, callbackRuns >>
       ELSE LET q == EngineRenderLoop(customAnimationFrameRequester, session,
                                      [rafQueued EXCEPT ![s] = FALSE], windowFrameQueued)
                branch == [c \in calls |-> RunInXRFrameBranch(TRUE, inXRSession, TRUE)]
            IN  /\ currentFrame' = StoredFrame(xrFrame, currentFrame)
                /\ currentTimestamp' = StoredTimestamp(timestamp, currentTimestamp)
                /\ notified' = [NoNotification EXCEPT
                                   !.obs = "onXRFrameObservable",
                                   !.to = onXRFrameObservable \cup frameOnce,
                                   !.sess = s, !.inXR = inXRSession,
                                   !.requester = customAnimationFrameRequester,
                                   !.dims = GetFramebufferDimensions(baseLayerRTTProvider),
                                   !.frame = xrFrame, !.timestamp = timestamp,
                                   !.inXRFrameLoop = TRUE]
                /\ frameOnce' = OnceAfterNotification(frameOnce)
                                 \cup {c \in calls : branch[c] = "addOnce"}
                /\ callbackRuns' = Ran(callbackRuns,
                                       frameOnce \cup {c \in calls : branch[c] = "callback"})
                /\ rafQueued' = q[1]
                /\ windowFrameQueued' = q[2]
                /\ framebufferDimensionsObject' = "null"
                /\ inXRFrameLoop' = FALSE
                /\ effects' = RenderFunctionEffects(frameOnce, calls)
                /\ UNCHANGED customAnimationFrameRequester
    /\ UNCHANGED << xrNavigator, managerVars, observerVars, constVars, peripheralVars, refVars, sessState,
                    endCalls, endPromises, endListener, pendingSession, historyVars >>

\* The places of the render function at which a callee can throw: a frame
\* observer at line 361, the render pass at line 362.
ThrowPoints == {"observer", "render"}

\* The statements of the render function for a frame in which a callee
\* throws: there is no try block in lines 351-366, the exception leaves the
\* render function and lines 363-364 are not run.
RenderFunctionThrowEffects(once, at) ==
    << "renderFunction", "currentFrame:=", "currentTimestamp:=", "inXRFrameLoop:=true",
       "framebufferDimensionsObject:=dims", "notify onXRFrameObservable" >>
    \o (IF at = "render"
        THEN (IF once # {} THEN << "callback" >> ELSE << >>) \o << "engine._renderLoop" >>
        ELSE << >>)
    \o << "throw" >>

\* The device calls the render function with a frame for the callback queued
\* on session s, and a frame observer or the render pass throws.  A throwing
\* observer is taken to be the first one notified; a render pass that throws
\* queues no further frame.
TickThrows(s, timestamp, xrFrame, at) ==
    /\ rafQueued[s]
    /\ sessState[s] = "active"
    /\ ~RenderFunctionReturns(inXRSession)
    /\ xrFrame # NoFrame
    /\ at \in ThrowPoints
    /\ at = "observer" => onXRFrameObservable # {} /\ frameOnce = {}
    /\ rafQueued' = [rafQueued EXCEPT ![s] = FALSE]
    /\ currentFrame' = StoredFrame(xrFrame, currentFrame)
    /\ currentTimestamp' = StoredTimestamp(timestamp, currentTimestamp)
    /\ inXRFrameLoop' = TRUE
    /\ framebufferDimensionsObject' = GetFramebufferDimensions(baseLayerRTTProvider)
    /\ frameOnce' = IF at = "render" THEN OnceAfterNotification(frameOnce) ELSE frameOnce
    /\ callbackRuns' = IF at = "render" THEN Ran(callbackRuns, frameOnce) ELSE callbackRuns
    /\ notified' = [NoNotification EXCEPT
                       !.obs = "onXRFrameObservable",
                       !.to = onXRFrameObservable \cup frameOnce,
                       !.sess = s, !.inXR = inXRSession,
                       !.requester = customAnimationFrameRequester,
                       !.dims = GetFramebufferDimensions(baseLayerRTTProvider),
                       !.frame = xrFrame, !.timestamp = timestamp,
                       !.inXRFrameLoop = TRUE]
    /\ effects' = RenderFunctionThrowEffects(frameOnce, at)
    /\ UNCHANGED << xrNavigator, managerVars, observerVars, constVars, peripheralVars,
                    refVars, sessState, endCalls, endPromises, endListener, pendingSession,
                    historyVars, customAnimationFrameRequester, windowFrameQueued >>

----------------------------------------------------------------------------
\* updateRenderState (lines 462-470) and _setBaseLayerWrapper (lines 435-441).

RenderStates == {"state", "state+baseLayer"}

\* Line 466: the wrapper variant built for the base layer.
WrapperFor(native) == IF native THEN "NativeXRLayerWrapper" ELSE "WebXRWebGLLayerWrapper"

\* Line 436: _setBaseLayerWrapper calls dispose() on the installed provider.
SetBaseLayerWrapperDisposes(native, provider) == provider # "null"

\* The statements of _setBaseLayerWrapper, in program order.
SetBaseLayerWrapperEffects_DisposeLast(native, provider) ==
    << "_baseLayerWrapper:=", "_baseLayerRTTProvider:=new" >>
    \o (IF SetBaseLayerWrapperDisposes(native, provider) THEN << "provider.dispose" >> ELSE << >>)

SetBaseLayerWrapperEffects(native, provider) ==
    (IF SetBaseLayerWrapperDisposes(native, provider) THEN << "provider.dispose" >> ELSE << >>)
    \o << "_baseLayerWrapper:=", "_baseLayerRTTProvider:=new" >>

\* updateRenderState(state).  isNative dereferences _xrNavigator.xr and
\* session.updateRenderState dereferences this.session: each raises a
\* TypeError when the object is missing, after the statements before it ran.
\* state.baseLayer is set: "state+movedLayer" is a retained state whose
\* baseLayer was replaced by moveXRToScene (line 162).
HasBaseLayer(state) == state \in {"state+baseLayer", "state+movedLayer"}

\* line 465: the branch that installs a wrapper is entered and isNative can
\* be read.
UpdateRenderStateInstalls(state) == HasBaseLayer(state) /\ HasXR

\* line 469 is reached and this.session can be dereferenced.
UpdateRenderStateCommits(state) == (HasBaseLayer(state) => HasXR) /\ session # NoSession

\* The assignments of updateRenderState(state), lines 463-467.
UpdateRenderStateAssignments(state) ==
    /\ renderState' = state
    /\ IF UpdateRenderStateInstalls(state)
       THEN /\ providerDisposed' = (providerDisposed
                   \/ SetBaseLayerWrapperDisposes(isNative, baseLayerRTTProvider))
            /\ baseLayerWrapper' = WrapperFor(isNative)
            /\ baseLayerRTTProvider' = "provider"
       ELSE UNCHANGED << providerDisposed, baseLayerWrapper, baseLayerRTTProvider >>

\* The statements of updateRenderState(state), in program order.
UpdateRenderStateStatements(state) ==
    << "_renderState:=" >>
    \o (IF UpdateRenderStateInstalls(state)
        THEN SetBaseLayerWrapperEffects(isNative, baseLayerRTTProvider)
        ELSE << >>)
    \o (IF UpdateRenderStateCommits(state) THEN << "session.updateRenderState" >>
                                           ELSE << "throw TypeError" >>)

updateRenderState(state) ==
    /\ UpdateRenderStateAssignments(state)
    /\ effects' = << "updateRenderState" >> \o UpdateRenderStateStatements(state)
    /\ notified' = NoNotification
    /\ UNCHANGED << xrNavigator, session, sessionMode, inXRSession, renderTarget,
                    observerVars, engineVars, constVars, peripheralVars, frameVars, refVars,
                    platformVars, initFired, endHandlerRuns >>

----------------------------------------------------------------------------
\* The session lifecycle and the XR render loop, with one frame handle and
\* one timestamp for every frame.
FrameHandle == "frameA"

FrameTimestamp == 10

NextSession ==
    \/ \E o \in Observers : AddSessionInitObserver(o)
    \/ \E o \in Observers : AddSessionEndedObserver(o)
    \/ \E o \in Observers : AddFrameObserver(o)
    \/ initializeAsync
    \/ \E m \in Modes : initializeSessionAsync(m)
    \/ \E m \in Modes, s \in Sessions, b \in BOOLEAN : SessionGranted(m, s, b)
    \/ \E m \in Modes : SessionRejected(m)
    \/ runXRRenderLoop
    \/ exitXRAsync
    \/ \E s \in Sessions : SessionEnd(s)
    \/ \E all \in BOOLEAN : dispose(all)
    \/ \E s \in Sessions : Tick(s, FrameTimestamp, FrameHandle, {})

Spec == Init /\ [][NextSession]_vars

\* The render state, the layer wrapper and the provider over the session lifecycle.
NextRender ==
    \/ initializeAsync
    \/ initializeSessionAsync("immersive-vr")
    \/ \E s \in Sessions : SessionGranted("immersive-vr", s, FALSE)
    \/ runXRRenderLoop
    \/ exitXRAsync
    \/ \E s \in Sessions : SessionEnd(s)
    \/ \E all \in BOOLEAN : dispose(all)
    \/ \E st \in RenderStates : updateRenderState(st)

SpecRender == Init /\ [][NextRender]_vars

----------------------------------------------------------------------------
\* setReferenceSpaceTypeAsync (lines 383-419).  A call in progress is a chain
\* of promise continuations; refCalls holds, per call, the request it waits
\* for ("requested": the named type, "fallback": the viewer space of line
\* 395, "viewer": the viewer space of line 409, "final": the continuation of
\* lines 414-418 is queued), the session the request was made on and the
\* space the chain carries, and the number of requestReferenceSpace calls the
\* chain has made so far.

Call(phase, asked, sess, value, requests) ==
    [phase |-> phase, asked |-> asked, sess |-> sess, value |-> value,
     requests |-> requests]

\* The calls in progress, with call c ended / replaced by d.
Ended(calls, c) == calls (-) SetToBag({c})

Continued(calls, c, d) == (calls (-) SetToBag({c})) (+) SetToBag({d})

\* Lines 397-398: the viewer space offset by (0, -defaultHeightCompensation, 0).
HeightCompensated_Default(space, height) ==
    [space EXCEPT !.offset = 0 - DefaultHeightCompensation]

HeightCompensated(space, height) == [space EXCEPT !.offset = 0 - height]

\* Line 416: this.referenceSpace = this.baseReferenceSpace = referenceSpace.
\* Gives << referenceSpace, baseReferenceSpace >>.
FinalAssignment_KeepsBase(value, base) == << value, base >>

FinalAssignment(value, base) == << value, value >>

\* Line 410: the value stored in viewerReferenceSpace.
ViewerAssignment(granted, value) == granted

refUnchanged == << xrNavigator, managerVars, observerVars, engineVars, platformVars,
                   constVars, peripheralVars, frameVars, historyVars, defaultHeightCompensation >>

\* The call (lines 384-385).  this.session.requestReferenceSpace raises a
\* TypeError while no session is stored; such a call changes nothing.
setReferenceSpaceTypeAsync(type) ==
    /\ session # NoSession
    /\ BagCardinality(refCalls) < MaxRefCalls
    /\ refCalls' = refCalls (+) SetToBag({Call("requested", type, session, NoSpace, 1)})
    /\ effects' = << "setReferenceSpaceTypeAsync", "requestReferenceSpace" >>
    /\ notified' = NoNotification
    /\ UNCHANGED << refUnchanged, referenceSpace, baseReferenceSpace, viewerReferenceSpace >>

\* The named type is granted (lines 387-389); the continuation of lines
\* 407-413 follows in the same microtask checkpoint and requests the viewer
\* space on the session stored by then.
ReferenceSpaceGranted(c) ==
    /\ c.phase = "requested"
    /\ sessState[c.sess] = "active"
    /\ refCalls' = Continued(refCalls, c,
                             Call("viewer", c.asked, session, Space(c.asked, c.sess),
                                  c.requests + 1))
    /\ effects' = << "requestReferenceSpace granted", "requestReferenceSpace viewer" >>
    /\ notified' = NoNotification
    /\ UNCHANGED << refUnchanged, referenceSpace, baseReferenceSpace, viewerReferenceSpace >>

\* The named type is rejected (lines 390-395): the viewer space is requested.
ReferenceSpaceRejected(c) ==
    /\ c.phase = "requested"
    /\ refCalls' = Continued(refCalls, c, Call("fallback", c.asked, session, NoSpace,
                                                c.requests + 1))
    /\ effects' = << "requestReferenceSpace rejected", "Logger.Error",
                     "requestReferenceSpace viewer" >>
    /\ notified' = NoNotification
    /\ UNCHANGED << refUnchanged, referenceSpace, baseReferenceSpace, viewerReferenceSpace >>

\* The fallback viewer space is granted (lines 396-399), then lines 407-413.
FallbackGranted(c) ==
    /\ c.phase = "fallback"
    /\ sessState[c.sess] = "active"
    /\ refCalls' = Continued(refCalls, c,
                             Call("viewer", c.asked, session,
                                  HeightCompensated(Space("viewer", c.sess),
                                                    defaultHeightCompensation),
                                  c.requests + 1))
    /\ effects' = << "viewer fallback granted", "getOffsetReferenceSpace",
                     "requestReferenceSpace viewer" >>
    /\ notified' = NoNotification
    /\ UNCHANGED << refUnchanged, referenceSpace, baseReferenceSpace, viewerReferenceSpace >>

\* The fallback viewer space is rejected (lines 400-403): the call rejects.
FallbackRejected_ClearsSpaces(c) ==
    /\ c.phase = "fallback"
    /\ refCalls' = Ended(refCalls, c)
    /\ effects' = << "viewer fallback rejected", "Logger.Error", "throw", "reject" >>
    /\ notified' = NoNotification
    /\ referenceSpace' = NoSpace
    /\ baseReferenceSpace' = NoSpace
    /\ UNCHANGED << refUnchanged, viewerReferenceSpace >>

FallbackRejected(c) ==
    /\ c.phase = "fallback"
    /\ refCalls' = Ended(refCalls, c)
    /\ effects' = << "viewer fallback rejected", "Logger.Error", "throw", "reject" >>
    /\ notified' = NoNotification
    /\ UNCHANGED << refUnchanged, referenceSpace, baseReferenceSpace, viewerReferenceSpace >>

\* The viewer space of line 409 is granted (lines 410-411).
ViewerGranted(c) ==
    /\ c.phase = "viewer"
    /\ sessState[c.sess] = "active"
    /\ viewerReferenceSpace' = ViewerAssignment(Space("viewer", c.sess), c.value)
    /\ refCalls' = Continued(refCalls, c, Call("final", c.asked, c.sess, c.value, c.requests))
    /\ effects' = << "viewer granted", "viewerReferenceSpace:=" >>
    /\ notified' = NoNotification
    /\ UNCHANGED << refUnchanged, referenceSpace, baseReferenceSpace >>

\* The viewer space of line 409 is rejected: nothing handles it, the call rejects.
ViewerRejected(c) ==
    /\ c.phase = "viewer"
    /\ refCalls' = Ended(refCalls, c)
    /\ effects' = << "viewer rejected", "reject" >>
    /\ notified' = NoNotification
    /\ UNCHANGED << refUnchanged, referenceSpace, baseReferenceSpace, viewerReferenceSpace >>

\* The setter of referenceSpace (lines 130-133).
\* Line 131: the value stored in _referenceSpace.
SetterStores(newReferenceSpace, current) == newReferenceSpace

\* Line 132: the notification the setter sends, whatever the value was before.
\* space is the event data the observers receive, written the value handed
\* to the setter.
SetterNotification_OnChange(newReferenceSpace, current, observers) ==
    IF newReferenceSpace = current
    THEN [NoNotification EXCEPT !.written = newReferenceSpace]
    ELSE [NoNotification EXCEPT !.obs = "onXRReferenceSpaceChanged", !.to = observers,
                                !.space = SetterStores(newReferenceSpace, current),
                                !.written = newReferenceSpace]

SetterNotification(newReferenceSpace, current, observers) ==
    [NoNotification EXCEPT !.obs = "onXRReferenceSpaceChanged", !.to = observers,
                           !.space = SetterStores(newReferenceSpace, current),
                           !.written = newReferenceSpace]

\* The last continuation (lines 414-418): base and current are assigned, the
\* setter of referenceSpace (lines 130-133) notifies, the call resolves with
\* this.referenceSpace.  notified.space is the value the call resolved with,
\* notified.mode the type the call asked for.
ReferenceSpaceFinal(c) ==
    /\ c.phase = "final"
    /\ LET a == FinalAssignment(c.value, baseReferenceSpace)
       IN  /\ referenceSpace' = a[1]
           /\ baseReferenceSpace' = a[2]
           /\ notified' = [SetterNotification(a[1], referenceSpace,
                                                  onXRReferenceSpaceChanged)
                              EXCEPT !.mode = c.asked, !.written = c.value]
    /\ refCalls' = Ended(refCalls, c)
    /\ effects' = << "setReferenceSpaceTypeAsync resolved", "baseReferenceSpace:=",
                     "referenceSpace:=", "notify onXRReferenceSpaceChanged", "resolve" >>
    /\ UNCHANGED << refUnchanged, viewerReferenceSpace >>

AddReferenceSpaceObserver(o) ==
    /\ o \notin onXRReferenceSpaceChanged
    /\ onXRReferenceSpaceChanged' = onXRReferenceSpaceChanged \cup {o}
    /\ effects' = << "onXRReferenceSpaceChanged.add" >>
    /\ notified' = NoNotification
    /\ UNCHANGED << xrNavigator, managerVars, onXRSessionInit, onXRSessionEnded,
                    onXRFrameObservable, engineVars, platformVars, constVars, peripheralVars, frameVars, refVars,
                    historyVars >>

\* The reference spaces over the session lifecycle.
NextReferenceSpace ==
    \/ initializeAsync
    \/ initializeSessionAsync("immersive-vr")
    \/ SessionGranted("immersive-vr", 1, FALSE)
    \/ SessionEnd(1)
    \/ \E o \in Observers : AddReferenceSpaceObserver(o)
    \/ \E t \in RefTypes : setReferenceSpaceTypeAsync(t)
    \/ \E c \in BagToSet(refCalls) : ReferenceSpaceGranted(c)
    \/ \E c \in BagToSet(refCalls) : ReferenceSpaceRejected(c)
    \/ \E c \in BagToSet(refCalls) : FallbackGranted(c)
    \/ \E c \in BagToSet(refCalls) : FallbackRejected(c)
    \/ \E c \in BagToSet(refCalls) : ViewerGranted(c)
    \/ \E c \in BagToSet(refCalls) : ViewerRejected(c)
    \/ \E c \in BagToSet(refCalls) : ReferenceSpaceFinal(c)

SpecReferenceSpace == Init /\ [][NextReferenceSpace]_vars

----------------------------------------------------------------------------
\* Writes by the callers of the manager to its public members.

\* The heights assigned to defaultHeightCompensation (line 62), in tenths of
\* a unit.
Heights == {DefaultHeightCompensation, 10}

SetDefaultHeightCompensation(h) ==
    /\ h # defaultHeightCompensation
    /\ defaultHeightCompensation' = h
    /\ effects' = << "defaultHeightCompensation:=" >>
    /\ notified' = NoNotification
    /\ UNCHANGED << xrNavigator, managerVars, observerVars, engineVars, platformVars,
                    constVars, peripheralVars, frameVars, historyVars, referenceSpace, baseReferenceSpace,
                    viewerReferenceSpace, refCalls >>

\* The values assigned to referenceSpace from outside: the value it has
\* already, and the current value moved by one tenth (what the camera and the
\* teleportation feature write, referenceSpace.getOffsetReferenceSpace(...)).
WrittenSpaces(current) == {current, [current EXCEPT !.offset = 1]}

\* manager.referenceSpace = v (lines 130-133).
SetReferenceSpace(v) ==
    /\ referenceSpace' = SetterStores(v, referenceSpace)
    /\ notified' = SetterNotification(v, referenceSpace, onXRReferenceSpaceChanged)
    /\ effects' = << "referenceSpace setter", "_referenceSpace:=",
                     "notify onXRReferenceSpaceChanged" >>
    /\ UNCHANGED << refUnchanged, baseReferenceSpace, viewerReferenceSpace, refCalls >>

\* Line 337: the value resetReferenceSpace hands to the setter.
ResetValue_KeepsCurrent(current, base) == current

ResetValue(current, base) == base

\* resetReferenceSpace (lines 336-338).
resetReferenceSpace ==
    LET v == ResetValue(referenceSpace, baseReferenceSpace)
    IN  /\ referenceSpace' = SetterStores(v, referenceSpace)
        /\ notified' = SetterNotification(v, referenceSpace, onXRReferenceSpaceChanged)
        /\ effects' = << "resetReferenceSpace", "_referenceSpace:=",
                         "notify onXRReferenceSpaceChanged" >>
        /\ UNCHANGED << refUnchanged, baseReferenceSpace, viewerReferenceSpace, refCalls >>

\* The reference spaces under the writes of the callers, in one session.
NextReferenceWrites ==
    \/ initializeAsync
    \/ initializeSessionAsync("immersive-vr")
    \/ SessionGranted("immersive-vr", 1, FALSE)
    \/ \E o \in Observers : AddReferenceSpaceObserver(o)
    \/ setReferenceSpaceTypeAsync("local-floor")
    \/ \E c \in BagToSet(refCalls) : ReferenceSpaceGranted(c)
    \/ \E c \in BagToSet(refCalls) : ReferenceSpaceRejected(c)
    \/ \E c \in BagToSet(refCalls) : FallbackGranted(c)
    \/ \E c \in BagToSet(refCalls) : FallbackRejected(c)
    \/ \E c \in BagToSet(refCalls) : ViewerGranted(c)
    \/ \E c \in BagToSet(refCalls) : ViewerRejected(c)
    \/ \E c \in BagToSet(refCalls) : ReferenceSpaceFinal(c)
    \/ \E h \in Heights : SetDefaultHeightCompensation(h)
    \/ \E v \in WrittenSpaces(referenceSpace) : SetReferenceSpace(v)
    \/ resetReferenceSpace

SpecReferenceWrites == Init /\ [][NextReferenceWrites]_vars

----------------------------------------------------------------------------
\* updateRenderTarget (lines 454-456).
updateRenderTarget ==
    /\ renderTarget' = "target"
    /\ effects' = << "updateRenderTarget", "_renderTarget:=" >>
    /\ notified' = NoNotification
    /\ UNCHANGED << xrNavigator, session, sessionMode, inXRSession, baseLayerWrapper,
                    baseLayerRTTProvider, renderState, observerVars, engineVars,
                    platformVars, constVars, peripheralVars, frameVars, refVars, historyVars >>

\* What dispose clears and keeps, over the session lifecycle.
NextDispose ==
    \/ initializeAsync
    \/ initializeSessionAsync("immersive-vr")
    \/ \E s \in Sessions : SessionGranted("immersive-vr", s, FALSE)
    \/ \E s \in Sessions : SessionEnd(s)
    \/ \E o \in Observers : AddSessionInitObserver(o)
    \/ \E o \in Observers : AddSessionEndedObserver(o)
    \/ \E o \in Observers : AddFrameObserver(o)
    \/ \E o \in Observers : AddReferenceSpaceObserver(o)
    \/ updateRenderState("state")
    \/ updateRenderTarget
    \/ \E all \in BOOLEAN : dispose(all)

SpecDispose == Init /\ [][NextDispose]_vars

----------------------------------------------------------------------------
\* The frames of the device over the session lifecycle.
NextFrame ==
    \/ initializeAsync
    \/ initializeSessionAsync("immersive-vr")
    \/ \E s \in Sessions : SessionGranted("immersive-vr", s, FALSE)
    \/ runXRRenderLoop
    \/ exitXRAsync
    \/ \E s \in Sessions : SessionEnd(s)
    \/ \E o \in Observers : AddFrameObserver(o)
    \/ updateRenderState("state+baseLayer")
    \/ \E s \in Sessions, t \in Timestamps, f \in Frames : Tick(s, t, f, {})

SpecFrame == Init /\ [][NextFrame]_vars

\* Frames in which a frame observer or the render pass throws, and the
\* callbacks handed to runInXRFrame afterwards.
NextThrowingFrame ==
    \/ initializeAsync
    \/ initializeSessionAsync("immersive-vr")
    \/ \E s \in Sessions : SessionGranted("immersive-vr", s, FALSE)
    \/ runXRRenderLoop
    \/ updateRenderState("state+baseLayer")
    \/ \E o \in Observers : AddFrameObserver(o)
    \/ \E s \in Sessions : Tick(s, FrameTimestamp, FrameHandle, {})
    \/ \E s \in Sessions, at \in ThrowPoints : TickThrows(s, FrameTimestamp, FrameHandle, at)
    \/ \E c \in Callbacks, ignore \in BOOLEAN : runInXRFrame(c, ignore)
    \/ \E s \in Sessions : SessionEnd(s)

SpecThrowingFrame == Init /\ [][NextThrowingFrame]_vars

\* Leaving a session through exitXRAsync or dispose: the promise of
\* session.end(), the end event and the frames of the device around it.
NextExit ==
    \/ initializeAsync
    \/ initializeSessionAsync("immersive-vr")
    \/ \E s \in Sessions : SessionGranted("immersive-vr", s, FALSE)
    \/ runXRRenderLoop
    \/ \E o \in Observers : AddFrameObserver(o)
    \/ exitXRAsync
    \/ \E all \in BOOLEAN : dispose(all)
    \/ \E s \in Sessions : SessionEnd(s)
    \/ \E s \in Sessions, rejected \in BOOLEAN : SessionEndSettled(s, rejected)
    \/ \E s \in Sessions : Tick(s, FrameTimestamp, FrameHandle, {})

SpecExit == Init /\ [][NextExit]_vars

\* session.end() makes the platform shut the session down and dispatch its
\* end event: the event of a session that was asked to end is not withheld
\* forever.
NextExitFair ==
    \/ initializeAsync
    \/ initializeSessionAsync("immersive-vr")
    \/ \E s \in Sessions : SessionGranted("immersive-vr", s, FALSE)
    \/ runXRRenderLoop
    \/ exitXRAsync
    \/ \E s \in Sessions : SessionEnd(s)
    \/ \E s \in Sessions, rejected \in BOOLEAN : SessionEndSettled(s, rejected)

SpecExitFair ==
    /\ Init
    /\ [][NextExitFair]_vars
    /\ \A s \in Sessions : WF_vars(endCalls[s] >= 1 /\ SessionEnd(s))

\* The end event with session-ended observers, a layer wrapper and the XR
\* frame driver installed.
NextEnd ==
    \/ initializeAsync
    \/ initializeSessionAsync("immersive-vr")
    \/ \E s \in Sessions : SessionGranted("immersive-vr", s, FALSE)
    \/ runXRRenderLoop
    \/ \E o \in Observers : AddSessionEndedObserver(o)
    \/ updateRenderState("state+baseLayer")
    \/ \E all \in BOOLEAN : dispose(all)
    \/ \E s \in Sessions : SessionEnd(s)

SpecEnd == Init /\ [][NextEnd]_vars

\* The callbacks handed to runInXRFrame over the session lifecycle.
NextRunInXRFrame ==
    \/ initializeAsync
    \/ initializeSessionAsync("immersive-vr")
    \/ \E s \in Sessions : SessionGranted("immersive-vr", s, FALSE)
    \/ runXRRenderLoop
    \/ exitXRAsync
    \/ \E s \in Sessions : SessionEnd(s)
    \/ \E all \in BOOLEAN : dispose(all)
    \/ \E o \in Observers : AddFrameObserver(o)
    \/ \E s \in Sessions, calls \in SUBSET Callbacks :
            Tick(s, FrameTimestamp, FrameHandle, calls)
    \/ \E c \in Callbacks, ignore \in BOOLEAN : runInXRFrame(c, ignore)

SpecRunInXRFrame == Init /\ [][NextRunInXRFrame]_vars

----------------------------------------------------------------------------
\* The fixedFoveation accessor (lines 553-566).  Levels are in tenths, so
\* the range [0, 1] is 0..10.

\* The platform creates the XR layer that the next render state carries:
\* its fixedFoveation is a number (initially 0) when the device supports
\* fixed foveation and is undefined otherwise.
CreateLayer(supported) ==
    /\ baseLayerWrapper = "null"
    /\ layerFoveation' = IF supported THEN 0 ELSE NullNumber
    /\ effects' = << "new XRWebGLLayer" >>
    /\ notified' = NoNotification
    /\ UNCHANGED << xrNavigator, managerVars, observerVars, engineVars, platformVars,
                    constVars, probes, moveVars, experienceVars, frameVars, refVars,
                    historyVars >>

\* WebXRLayerWrapper.fixedFoveation: the layer's value when the layer
\* supports fixed foveation and null otherwise; a write to a layer without
\* support is dropped.
LayerWrapperGet(layerValue) == layerValue

LayerWrapperSet(layerValue, val) == IF layerValue = NullNumber THEN NullNumber ELSE val

Min(a, b) == IF a < b THEN a ELSE b

Max(a, b) == IF a > b THEN a ELSE b

\* value || 0
OrZero(value) == IF value = NullNumber THEN 0 ELSE value

FixedFoveationClamp_UpperOnly(value) == Min(10, OrZero(value))

\* line 562: Math.max(0, Math.min(1, value || 0))
FixedFoveationClamp(value) == Max(0, Min(10, OrZero(value)))

\* set fixedFoveation(value), lines 561-566
SetFixedFoveation(value) ==
    /\ layerFoveation' = IF baseLayerWrapper # "null"
                         THEN LayerWrapperSet(layerFoveation, FixedFoveationClamp(value))
                         ELSE layerFoveation
    /\ effects' = << "fixedFoveation setter" >>
                  \o (IF baseLayerWrapper # "null"
                      THEN << "_baseLayerWrapper.fixedFoveation:=" >> ELSE << >>)
    /\ notified' = [NoNotification EXCEPT !.number = value]
    /\ UNCHANGED << xrNavigator, managerVars, observerVars, engineVars, platformVars,
                    constVars, probes, moveVars, experienceVars, frameVars, refVars,
                    historyVars >>

\* line 554: this._baseLayerWrapper?.fixedFoveation || null
FixedFoveationRead(wrapper, layerValue) ==
    IF wrapper = "null" THEN NullNumber
    ELSE IF LayerWrapperGet(layerValue) = 0 THEN NullNumber
    ELSE LayerWrapperGet(layerValue)

\* get fixedFoveation(), lines 553-555
GetFixedFoveation ==
    /\ effects' = << "fixedFoveation getter" >>
    /\ notified' = [NoNotification EXCEPT
                        !.number = FixedFoveationRead(baseLayerWrapper, layerFoveation)]
    /\ UNCHANGED << xrNavigator, managerVars, observerVars, engineVars, platformVars,
                    constVars, accessVars, moveVars, experienceVars, frameVars, refVars,
                    historyVars >>

----------------------------------------------------------------------------
\* IsSessionSupportedAsync (lines 477-497).

\* The capability functions a navigator.xr object can have.
ProbeFunctions == {"isSessionSupported", "supportsSession", "none"}

\* What the promise of isSessionSupported / supportsSession settles with.
ProbeOutcomes == {"true", "false", "undefined", "reject"}

\* lines 485-496: whether the call returns a resolved false ("false") or
\* calls the capability function ("probe").
SessionSupportedBranch(xr, functionToUse) ==
    IF xr = "absent" THEN "false"
    ELSE IF functionToUse = "none" THEN "false"
    ELSE "probe"

IsSessionSupportedAsync(sessionMode_, functionToUse) ==
    LET branch == SessionSupportedBranch(navigatorXR, functionToUse)
    IN  /\ branch = "probe" => probes[sessionMode_] < MaxProbes
        /\ probes' = IF branch = "probe"
                     THEN [probes EXCEPT ![sessionMode_] = @ + 1]
                     ELSE probes
        /\ effects' = << "IsSessionSupportedAsync", functionToUse >>
                      \o (IF branch = "probe" THEN << "call " \o functionToUse >>
                                              ELSE << "resolve false" >>)
        /\ notified' = [NoNotification EXCEPT !.mode = sessionMode_]
        /\ UNCHANGED << xrNavigator, managerVars, observerVars, engineVars, platformVars,
                        constVars, layerFoveation, moveVars, experienceVars, frameVars,
                        refVars, historyVars >>

ProbeSettlement_Rethrows(outcome) ==
    IF outcome = "reject" THEN << "Logger.Warn", "reject" >>
    ELSE IF outcome = "false" THEN << "resolve false" >>
    ELSE << "resolve true" >>

\* lines 488-495: the then and catch handlers on the probe's promise.
ProbeSettlement(outcome) ==
    IF outcome = "reject" THEN << "Logger.Warn", "resolve false" >>
    ELSE IF outcome = "false" THEN << "resolve false" >>
    ELSE << "resolve true" >>

ProbeSettled(sessionMode_, outcome) ==
    /\ probes[sessionMode_] > 0
    /\ probes' = [probes EXCEPT ![sessionMode_] = @ - 1]
    /\ effects' = << "IsSessionSupportedAsync settled", "probe " \o outcome >>
                  \o ProbeSettlement(outcome)
    /\ notified' = [NoNotification EXCEPT !.mode = sessionMode_]
    /\ UNCHANGED << xrNavigator, managerVars, observerVars, engineVars, platformVars,
                    constVars, layerFoveation, moveVars, experienceVars, frameVars,
                    refVars, historyVars >>

\* The capability probe, which is static and reads navigator.xr only.
NextProbe ==
    \/ initializeAsync
    \/ \E m \in Modes, f \in ProbeFunctions : IsSessionSupportedAsync(m, f)
    \/ \E m \in Modes, o \in ProbeOutcomes : ProbeSettled(m, o)

SpecProbe == Init /\ [][NextProbe]_vars

\* The session lifecycle with the fixedFoveation accessor.
NextAccessors ==
    \/ initializeAsync
    \/ initializeSessionAsync("immersive-vr")
    \/ \E s \in Sessions : SessionGranted("immersive-vr", s, FALSE)
    \/ \E s \in Sessions : SessionEnd(s)
    \/ \E supported \in BOOLEAN : CreateLayer(supported)
    \/ updateRenderState("state+baseLayer")
    \/ \E v \in Foveations : SetFixedFoveation(v)
    \/ GetFixedFoveation

SpecAccessors == Init /\ [][NextAccessors]_vars

----------------------------------------------------------------------------
\* moveXRToScene (lines 149-178).  The call runs up to the await of
\* initializeXRLayerAsync (line 158) when a session is running and a render
\* state is retained, and is resumed when that promise settles; otherwise it
\* runs to its end.  hookUp is the set of observers the hookUp callback adds
\* to onXRSessionInit and onXRSessionMoved.

\* line 151: the block of lines 152-165 is entered.
MoveReappliesRenderState(inXR, state) == inXR /\ state # "null"

\* line 152: a render target is created when none is held.
MoveCreatesRenderTarget(target) == target = "null"

MoveReplacesBaseLayer_Always(layers) == TRUE

\* line 161: the new layer becomes the base layer unless the session's
\* enabled features include the layers feature.
MoveReplacesBaseLayer(layers) == ~layers

MoveNotifiesInit_Always(inXR) == TRUE

\* line 173: the session-initialised notification is sent when in a session.
MoveNotifiesInit(inXR) == inXR

\* Lines 169-175: hookUp, the session-moved notification and the
\* session-initialised notification.
MoveCompletionStatements ==
    << "hookUp", "notify onXRSessionMoved" >>
    \o (IF MoveNotifiesInit(inXRSession) THEN << "notify onXRSessionInit" >> ELSE << >>)

MoveCompletion(hookUp) ==
    /\ onXRSessionInit' = onXRSessionInit \cup hookUp
    /\ onXRSessionMoved' = onXRSessionMoved \cup hookUp
    /\ notified' = [NoNotification EXCEPT
                        !.obs = "onXRSessionMoved",
                        !.to = onXRSessionMoved \cup hookUp,
                        !.sess = session, !.mode = sessionMode, !.inXR = inXRSession,
                        !.also = IF MoveNotifiesInit(inXRSession)
                                 THEN onXRSessionInit \cup hookUp ELSE {}]
    /\ initFired' = IF MoveNotifiesInit(inXRSession) /\ session \in Sessions
                    THEN NotifySessionInit(initFired, session)
                    ELSE initFired

\* The call, up to the await of line 158 or to its end.
MoveStartStatements(nextScene) ==
    << "nextScene=" \o nextScene, "scene:=" >>
    \o (IF MoveReappliesRenderState(inXRSession, renderState)
        THEN (IF MoveCreatesRenderTarget(renderTarget)
              THEN (IF HasXR THEN << "getWebXRRenderTarget", "updateRenderTarget" >>
                             ELSE << "getWebXRRenderTarget", "throw TypeError" >>)
              ELSE << >>)
        ELSE << >>)

MoveStartSuspends ==
    /\ MoveReappliesRenderState(inXRSession, renderState)
    /\ MoveCreatesRenderTarget(renderTarget) => HasXR

MoveStartThrows ==
    /\ MoveReappliesRenderState(inXRSession, renderState)
    /\ MoveCreatesRenderTarget(renderTarget)
    /\ ~HasXR

MoveStart(nextScene, hookUp) ==
    /\ scene' = nextScene
    /\ renderTarget' = IF /\ MoveReappliesRenderState(inXRSession, renderState)
                          /\ MoveCreatesRenderTarget(renderTarget)
                          /\ HasXR
                       THEN "target" ELSE renderTarget
    /\ IF MoveStartSuspends
       THEN /\ pendingLayerInit' = pendingLayerInit (+) SetToBag({hookUp})
            /\ notified' = NoNotification
            /\ UNCHANGED << onXRSessionInit, onXRSessionMoved, initFired >>
       ELSE IF MoveStartThrows
       THEN /\ notified' = NoNotification
            /\ UNCHANGED << pendingLayerInit, onXRSessionInit, onXRSessionMoved, initFired >>
       ELSE /\ MoveCompletion(hookUp)
            /\ UNCHANGED pendingLayerInit

moveXRToScene(nextScene, hookUp) ==
    /\ MoveStartSuspends => BagCardinality(pendingLayerInit) < MaxMoves
    /\ MoveStart(nextScene, hookUp)
    /\ effects' = << "moveXRToScene" >> \o MoveStartStatements(nextScene)
                  \o (IF MoveStartSuspends THEN << "initializeXRLayerAsync" >>
                      ELSE IF MoveStartThrows THEN << >>
                      ELSE MoveCompletionStatements)
    /\ UNCHANGED << xrNavigator, session, sessionMode, inXRSession, baseLayerWrapper,
                    baseLayerRTTProvider, renderState, onXRSessionEnded,
                    onXRFrameObservable, onXRReferenceSpaceChanged, engineVars,
                    platformVars, constVars, accessVars, experienceVars, frameVars,
                    refVars, endHandlerRuns, providerDisposed >>

\* The retained render state after line 162.
MovedRenderState(state, layers) ==
    IF MoveReplacesBaseLayer(layers) THEN "state+movedLayer" ELSE state

\* Lines 161-164 can be run: _renderState is dereferenced at line 162 when
\* the base layer is replaced, and by updateRenderState at line 465.
MoveResumeDereferences(state) == state # "null"

MoveResumeStatements(layers) ==
    << IF layers THEN "layers feature enabled" ELSE "no layers feature" >>
    \o (IF ~MoveResumeDereferences(renderState)
        THEN << "throw TypeError" >>
        ELSE (IF MoveReplacesBaseLayer(layers) THEN << "_renderState.baseLayer:=" >>
                                               ELSE << >>)
             \o << "updateRenderState" >>
             \o UpdateRenderStateStatements(MovedRenderState(renderState, layers)))

MoveResumeCompletes(layers) ==
    /\ MoveResumeDereferences(renderState)
    /\ UpdateRenderStateCommits(MovedRenderState(renderState, layers))

MoveResume(hookUp, layers) ==
    /\ IF MoveResumeDereferences(renderState)
       THEN UpdateRenderStateAssignments(MovedRenderState(renderState, layers))
       ELSE UNCHANGED << renderState, providerDisposed, baseLayerWrapper,
                         baseLayerRTTProvider >>
    /\ IF MoveResumeCompletes(layers)
       THEN MoveCompletion(hookUp)
       ELSE /\ notified' = NoNotification
            /\ UNCHANGED << onXRSessionInit, onXRSessionMoved, initFired >>

\* initializeXRLayerAsync resolved: lines 158-175.  layers: the session's
\* enabledFeatures include the layers feature.
LayerInitResolved(hookUp, layers) ==
    /\ BagIn(hookUp, pendingLayerInit)
    /\ pendingLayerInit' = pendingLayerInit (-) SetToBag({hookUp})
    /\ MoveResume(hookUp, layers)
    /\ effects' = << "moveXRToScene resumed" >> \o MoveResumeStatements(layers)
                  \o (IF MoveResumeCompletes(layers) THEN MoveCompletionStatements
                                                     ELSE << >>)
    /\ UNCHANGED << xrNavigator, session, sessionMode, inXRSession, renderTarget, scene,
                    onXRSessionEnded, onXRFrameObservable, onXRReferenceSpaceChanged,
                    engineVars, platformVars, constVars, accessVars, experienceVars,
                    frameVars, refVars, endHandlerRuns >>

\* initializeXRLayerAsync rejected: the await of line 158 throws and the
\* call is rejected.
LayerInitRejected(hookUp) ==
    /\ BagIn(hookUp, pendingLayerInit)
    /\ pendingLayerInit' = pendingLayerInit (-) SetToBag({hookUp})
    /\ effects' = << "moveXRToScene resumed", "reject" >>
    /\ notified' = NoNotification
    /\ UNCHANGED << xrNavigator, managerVars, observerVars, engineVars, platformVars,
                    constVars, accessVars, scene, onXRSessionMoved, experienceVars,
                    frameVars, refVars, historyVars >>

\* moveXRToScene called on the manager, before, in and after a session; a
\* session leaves the flag through dispose.
NextMove ==
    \/ initializeAsync
    \/ initializeSessionAsync("immersive-vr")
    \/ \E s \in Sessions : SessionGranted("immersive-vr", s, FALSE)
    \/ \E st \in RenderStates : updateRenderState(st)
    \/ updateRenderTarget
    \/ \E all \in BOOLEAN : dispose(all)
    \/ \E sc \in Scenes, h \in SUBSET Observers : moveXRToScene(sc, h)
    \/ \E h \in SUBSET Observers, layers \in BOOLEAN : LayerInitResolved(h, layers)
    \/ \E h \in SUBSET Observers : LayerInitRejected(h)

SpecMove == Init /\ [][NextMove]_vars

----------------------------------------------------------------------------
\* The WebXRDefaultExperience (src/unnamed/part_000).  An options object is
\* the set of its keys, each set to true; {} is the empty object.

Option(options, key) == key \in options

Range(q) == {q[i] : i \in 1..Len(q)}

SceneInitSteps_TeleportsWhenPersistent(options, persistent_) ==
    << "input" >>
    \o (IF ~Option(options, "disablePointerSelection")
        THEN << "pointerSelection" >>
             \o (IF ~Option(options, "disableTeleportation")
                 THEN << "teleportation" >> ELSE << >>)
        ELSE << >>)
    \o (IF ~Option(options, "disableNearInteraction")
        THEN << "nearInteraction" >> ELSE << >>)

SceneInitSteps_NearNeedsPointer(options, persistent_) ==
    << "input" >>
    \o (IF ~Option(options, "disablePointerSelection")
        THEN << "pointerSelection" >>
             \o (IF ~Option(options, "disableTeleportation")
                 THEN (IF persistent_ THEN << "throw teleportation" >>
                                      ELSE << "teleportation" >>)
                 ELSE << >>)
             \o (IF ~Option(options, "disableNearInteraction")
                 THEN << "nearInteraction" >> ELSE << >>)
        ELSE << >>)

\* The objects _initializeScene creates, in program order (lines 298-355);
\* "throw teleportation" is the throw of line 324.
SceneInitSteps(options, persistent_) ==
    << "input" >>
    \o (IF ~Option(options, "disablePointerSelection")
        THEN << "pointerSelection" >>
             \o (IF ~Option(options, "disableTeleportation")
                 THEN (IF persistent_ THEN << "throw teleportation" >>
                                      ELSE << "teleportation" >>)
                 ELSE << >>)
        ELSE << >>)
    \o (IF ~Option(options, "disableNearInteraction")
        THEN << "nearInteraction" >> ELSE << >>)

\* The steps of the promise chain of CreateAsync (lines 193-207) and of
\* CreatePersistentAsync (lines 238-252): "ui" is the construction of the
\* enter/exit UI in _addUI, "setHelper" is setHelperAsync.
CreateSteps(kind, options) ==
    << "base" >>
    \o (IF kind = "CreateAsync" THEN SceneInitSteps(options, FALSE) ELSE << >>)
    \o << "renderTarget" >>
    \o (IF ~Option(options, "disableDefaultUI") THEN << "ui", "setHelper" >> ELSE << >>)

\* The step at which a collaborator throws or rejects; "none" when all succeed.
FailPoints == {"none", "base", "input", "pointerSelection", "teleportation",
               "nearInteraction", "renderTarget", "ui", "setHelper"}

Fails(step, failAt) == step = failAt \/ step = "throw teleportation"

\* The position of the first step that fails, Len(steps) + 1 when none does.
FirstFailure(steps, failAt) ==
    IF \E i \in 1..Len(steps) : Fails(steps[i], failAt)
    THEN CHOOSE i \in 1..Len(steps) :
            Fails(steps[i], failAt) /\ \A j \in 1..(i - 1) : ~Fails(steps[j], failAt)
    ELSE Len(steps) + 1

Failed(steps, failAt) == FirstFailure(steps, failAt) <= Len(steps)

StepsRun_SkipFailing(steps, failAt) == SelectSeq(steps, LAMBDA e : ~Fails(e, failAt))

\* An exception leaves the function, a rejection skips the then handlers:
\* the steps before the failing one have run, the later ones never run.
StepsRun(steps, failAt) == SubSeq(steps, 1, FirstFailure(steps, failAt) - 1)

\* The fields after a run of _initializeScene in which the steps ran were
\* completed.  Line 337 wires the teleportation to this.pointerSelection and
\* line 348 hands this.pointerSelection to the near interaction.
InitializedScene(exp, ran) ==
    LET n == exp.initializations + 1
        pointer == IF "pointerSelection" \in ran THEN n ELSE exp.pointerSelection
    IN  [exp EXCEPT
            !.initializations = n,
            !.input = IF "input" \in ran THEN n ELSE @,
            !.disposed = IF "input" \in ran THEN @ \ {"input"} ELSE @,
            !.pointerSelection = pointer,
            !.teleportation = IF "teleportation" \in ran THEN n ELSE @,
            !.selectionFeature = IF "teleportation" \in ran THEN pointer ELSE @,
            !.nearInteraction = IF "nearInteraction" \in ran THEN n ELSE @,
            !.farInteractionFeature = IF "nearInteraction" \in ran THEN pointer ELSE @]

StoredOptions_AsGiven(kind, options) == options

\* lines 227-232: the defaults of CreatePersistentAsync for an empty options object.
StoredOptions(kind, options) ==
    IF kind = "CreatePersistentAsync" /\ options = {}
    THEN {"disableTeleportation", "disableNearInteraction"}
    ELSE options

\* WebXRExperienceHelper.CreateAsync runs initializeAsync on the session
\* manager it creates and rejects when that rejects.
BaseCreationFailAt(xr, failAt) == IF xr = "absent" THEN "base" ELSE failAt

\* lines 208-216 and 253-261: the last then handler and the catch handler.
CreateSettlement(failed) ==
    IF failed THEN << "Logger.Error", "resolve result" >> ELSE << "resolve result" >>

\* CreateAsync(scene, options) and CreatePersistentAsync(engine, options),
\* with the whole promise chain.
CreateExperience(kind, options, failAt) ==
    /\ ~experience.created
    /\ persistent = (kind = "CreatePersistentAsync")
    /\ failAt \in Range(CreateSteps(kind, StoredOptions(kind, options))) \cup {"none"}
    /\ LET stored == StoredOptions(kind, options)
           fail == BaseCreationFailAt(navigatorXR, failAt)
           steps == CreateSteps(kind, stored)
           ran == Range(StepsRun(steps, fail))
           fields == [NoExperience EXCEPT
                        !.created = TRUE,
                        !.persistent = (kind = "CreatePersistentAsync"),
                        !.options = stored,
                        !.baseExperience = "base" \in ran,
                        !.baseScene = IF "base" \in ran THEN scene ELSE NoScene,
                        !.renderTarget = "renderTarget" \in ran,
                        !.enterExitUI = "ui" \in ran]
       IN  /\ experience' = IF kind = "CreateAsync" /\ "base" \in ran
                            THEN InitializedScene(fields, ran)
                            ELSE fields
           /\ effects' = << kind, "failAt=" \o failAt >> \o StepsRun(steps, fail)
                         \o CreateSettlement(Failed(steps, fail))
    /\ xrNavigator' = TRUE
    /\ notified' = [NoNotification EXCEPT !.options = options]
    /\ UNCHANGED << managerVars, observerVars, engineVars, platformVars, constVars,
                    accessVars, moveVars, pendingBaseMove, frameVars, refVars, historyVars >>

ExperienceShouldClear_Always(persistent_, all) == TRUE

ExperienceShouldClear_AllOnly(persistent_, all) == all

\* line 385
ExperienceShouldClear(persistent_, all) == ~persistent_ \/ all

\* The objects disposed by dispose(all), lines 390-398.
ExperienceDisposed(exp, all) ==
    exp.disposed
    \cup (IF exp.input # 0 THEN {"input"} ELSE {})
    \cup (IF exp.enterExitUI /\ ExperienceShouldClear(exp.persistent, all)
          THEN {"enterExitUI"} ELSE {})
    \cup (IF exp.renderTarget /\ ExperienceShouldClear(exp.persistent, all)
          THEN {"renderTarget"} ELSE {})

\* WebXRExperienceHelper.dispose(all) disposes the session manager with the
\* same argument.
BaseExperienceDisposeGuard(all) == DisposeGuard(all)

BaseExperienceDispose(all) == DisposeAssignments(all)

BaseExperienceDisposeStatements(all) == << "baseExperience.dispose" >> \o DisposeStatements(all)

ExperienceDisposeGuard(all) == experience.baseExperience => BaseExperienceDisposeGuard(all)

\* The assignments of WebXRDefaultExperience.dispose(all), lines 384-399.
ExperienceDisposeAssignments(all) ==
    /\ IF experience.baseExperience
       THEN BaseExperienceDispose(all)
       ELSE UNCHANGED << inXRSession, endCalls, endPromises, onXRFrameObservable, frameOnce,
                         onXRReferenceSpaceChanged, onXRSessionInit, renderTarget,
                         renderState, onXRSessionEnded >>
    /\ experience' = [experience EXCEPT !.disposed = ExperienceDisposed(experience, all)]

\* Its statements, in program order.
ExperienceDisposeStatements(all) ==
    << "experience.dispose", AllArgument(all) >>
    \o (IF experience.baseExperience THEN BaseExperienceDisposeStatements(all) ELSE << >>)
    \o (IF experience.input # 0 THEN << "input.dispose" >> ELSE << >>)
    \o (IF experience.enterExitUI /\ ExperienceShouldClear(experience.persistent, all)
        THEN << "enterExitUI.dispose" >> ELSE << >>)
    \o (IF experience.renderTarget /\ ExperienceShouldClear(experience.persistent, all)
        THEN << "renderTarget.dispose" >> ELSE << >>)

\* What WebXRDefaultExperience.dispose and the first step of its
\* moveXRToScene leave alone.
experienceDisposeUnchanged ==
    UNCHANGED << xrNavigator, session, sessionMode, baseLayerWrapper, baseLayerRTTProvider,
                 engineVars, constVars, accessVars, moveVars, refVars, sessState,
                 endListener, rafQueued, pendingSession, historyVars, currentFrame,
                 currentTimestamp, inXRFrameLoop, callbackRuns >>

experienceDispose(all) ==
    /\ experience.created
    /\ ExperienceDisposeGuard(all)
    /\ ExperienceDisposeAssignments(all)
    /\ effects' = ExperienceDisposeStatements(all)
    /\ notified' = NoNotification
    /\ UNCHANGED pendingBaseMove
    /\ experienceDisposeUnchanged

ExperienceMoveAllowed_Always(persistent_) == TRUE

\* line 366: the sanity check of moveXRToScene.
ExperienceMoveAllowed(persistent_) == persistent_

\* WebXRDefaultExperience.moveXRToScene(nextScene, hookUp), lines 364-372:
\* the call up to the await of the base experience's migration.  A call is
\* the pair of its arguments.
experienceMoveXRToScene(nextScene, hookUp) ==
    /\ experience.created
    /\ IF ~ExperienceMoveAllowed(experience.persistent)
       THEN /\ effects' = << "experience.moveXRToScene", "nextScene=" \o nextScene,
                             "throw", "reject" >>
            /\ notified' = NoNotification
            /\ UNCHANGED << xrNavigator, managerVars, observerVars, engineVars,
                            platformVars, constVars, peripheralVars, frameVars, refVars,
                            historyVars >>
       ELSE /\ experience.initializations + BagCardinality(pendingBaseMove) < MaxSceneInits
            /\ ExperienceDisposeGuard(FALSE)
            /\ ExperienceDisposeAssignments(FALSE)
            /\ pendingBaseMove' = IF experience.baseExperience
                                  THEN pendingBaseMove (+) SetToBag({<< nextScene, hookUp >>})
                                  ELSE pendingBaseMove
            /\ effects' = << "experience.moveXRToScene", "nextScene=" \o nextScene >>
                          \o ExperienceDisposeStatements(FALSE)
                          \o (IF experience.baseExperience
                              THEN << "baseExperience.moveXRToScene" >>
                              ELSE << "throw TypeError", "reject" >>)
            /\ notified' = NoNotification
            /\ experienceDisposeUnchanged

\* The statement at which a failed run of _initializeScene stops.
SceneInitFailure(steps, failAt) ==
    IF steps[FirstFailure(steps, failAt)] = "throw teleportation"
    THEN << "throw teleportation", "reject" >>
    ELSE << "throw", "reject" >>

\* The base experience's migration resolved: lines 372-378.  The session
\* manager's moveXRToScene is called and its promise is dropped.
BaseMoveResolved(nextScene, hookUp, failAt) ==
    LET steps == SceneInitSteps(experience.options, experience.persistent)
        failed == Failed(steps, failAt)
    IN  /\ BagIn(<< nextScene, hookUp >>, pendingBaseMove)
        /\ failAt \in Range(steps) \cup {"none"}
        /\ (~failed /\ MoveStartSuspends) => BagCardinality(pendingLayerInit) < MaxMoves
        /\ pendingBaseMove' = pendingBaseMove (-) SetToBag({<< nextScene, hookUp >>})
        /\ experience' = [InitializedScene(experience, Range(StepsRun(steps, failAt)))
                            EXCEPT !.baseScene = nextScene]
        /\ IF failed
           THEN /\ notified' = NoNotification
                /\ UNCHANGED << scene, renderTarget, pendingLayerInit, onXRSessionInit,
                                onXRSessionMoved, initFired >>
           ELSE MoveStart(nextScene, hookUp)
        /\ effects' = << "experience.moveXRToScene resumed", "nextScene=" \o nextScene,
                         "baseExperience migrated", "_initializeScene" >>
                      \o StepsRun(steps, failAt)
                      \o (IF failed
                          THEN SceneInitFailure(steps, failAt)
                          ELSE << "sessionManager.moveXRToScene" >>
                               \o MoveStartStatements(nextScene)
                               \o (IF MoveStartSuspends THEN << "initializeXRLayerAsync" >>
                                   ELSE IF MoveStartThrows THEN << >>
                                   ELSE MoveCompletionStatements)
                               \o << "resolve" >>)
        /\ UNCHANGED << xrNavigator, session, sessionMode, inXRSession, baseLayerWrapper,
                        baseLayerRTTProvider, renderState, onXRSessionEnded,
                        onXRFrameObservable, onXRReferenceSpaceChanged, engineVars,
                        platformVars, constVars, accessVars, frameVars, refVars,
                        endHandlerRuns, providerDisposed >>

\* The base experience's migration rejected: the await of line 372 throws.
BaseMoveRejected(nextScene, hookUp) ==
    /\ BagIn(<< nextScene, hookUp >>, pendingBaseMove)
    /\ pendingBaseMove' = pendingBaseMove (-) SetToBag({<< nextScene, hookUp >>})
    /\ effects' = << "experience.moveXRToScene resumed", "nextScene=" \o nextScene,
                     "reject" >>
    /\ notified' = NoNotification
    /\ UNCHANGED << xrNavigator, managerVars, observerVars, engineVars, platformVars,
                    constVars, accessVars, moveVars, experience, frameVars, refVars,
                    historyVars >>

\* The creation of an experience for every options object and every failure.
NextCreate ==
    \/ \E kind \in {"CreateAsync", "CreatePersistentAsync"}, options \in SUBSET OptionKeys,
          failAt \in FailPoints : CreateExperience(kind, options, failAt)
    \/ \E all \in BOOLEAN : experienceDispose(all)

SpecCreate == Init /\ [][NextCreate]_vars

\* Creation and moves between scenes with no session running, for every
\* options object: each move runs _initializeScene.
NextSceneInit ==
    \/ \E kind \in {"CreateAsync", "CreatePersistentAsync"}, options \in SUBSET OptionKeys :
            CreateExperience(kind, options, "none")
    \/ experienceMoveXRToScene("sceneB", Observers)
    \/ BaseMoveResolved("sceneB", Observers, "none")
    \/ BaseMoveRejected("sceneB", Observers)

SpecSceneInit == Init /\ [][NextSceneInit]_vars

\* The options objects of the experiences that are moved between scenes.
MovedOptions == {{}, {"disablePointerSelection"}}

\* An experience before and in a session: creation and moves between scenes.
NextExperience ==
    \/ \E kind \in {"CreateAsync", "CreatePersistentAsync"}, options \in MovedOptions :
            CreateExperience(kind, options, "none")
    \/ initializeSessionAsync("immersive-vr")
    \/ \E s \in Sessions : SessionGranted("immersive-vr", s, FALSE)
    \/ updateRenderState("state+baseLayer")
    \/ \E sc \in Scenes : experienceMoveXRToScene(sc, Observers)
    \/ \E sc \in Scenes, failAt \in {"none", "input"} : BaseMoveResolved(sc, Observers, failAt)
    \/ \E sc \in Scenes : BaseMoveRejected(sc, Observers)
    \/ \E layers \in BOOLEAN : LayerInitResolved(Observers, layers)
    \/ LayerInitRejected(Observers)

SpecExperience == Init /\ [][NextExperience]_vars

----------------------------------------------------------------------------
\* The claims.

\* The sessions the manager acquired that are active and that it has not
\* asked to end.
HeldSessions == {s \in Sessions : sessState[s] = "active" /\ endCalls[s] = 0}

\* C1: at most one session acquired by the manager is active at any time;
\* initializeSessionAsync while inXRSession is true does not store a second
\* session alongside the first.
C1_AtMostOneActiveSession == Cardinality(HeldSessions) <= 1

\* C2: every onXRSessionInit observer notified by initializeSessionAsync
\* reads session = the new session, sessionMode = the requested mode and
\* inXRSession = TRUE (the flag is set before the notification).
C2_InitObserversSeeInSession ==
    (LastOp = "then" /\ notified.obs = "onXRSessionInit")
        => /\ notified.sess = session
           /\ notified.mode = sessionMode
           /\ notified.inXR = TRUE

\* C3: a frame notification is delivered for a session only after the
\* session-initialized notification of that session, which itself is sent
\* after the session is stored.
C3_InitBeforeFrame ==
    /\ notified.obs = "onXRFrameObservable" => initFired[notified.sess]
    /\ LastOp = "then"
          => /\ notified.obs = "onXRSessionInit"
             /\ notified.sess = session
             /\ initFired[session]
             /\ Before(effects, "session:=", "notify onXRSessionInit")
    /\ \A s \in Sessions : rafQueued[s] => initFired[s]

C3_Witness ==
    /\ notified.obs = "onXRFrameObservable"
    /\ notified.to # {}
    /\ notified.sess = 2
    /\ initFired[2]

\* C4: the end listener sets inXRSession to false, then notifies the
\* onXRSessionEnded observers, and only then restores the engine; it runs at
\* most once per session.
C4_EndListenerOrder ==
    [][LastOp' = "end listener"
         => /\ inXRSession' = FALSE
            /\ notified'.obs = "onXRSessionEnded"
            /\ notified'.to = onXRSessionEnded
            /\ notified'.inXR = FALSE
            /\ notified'.requester = customAnimationFrameRequester
            /\ notified'.dims = framebufferDimensionsObject
            /\ notified'.windowFrameQueued = windowFrameQueued
            /\ Before(effects', "inXRSession:=false", "notify onXRSessionEnded")
            /\ Before(effects', "notify onXRSessionEnded", "framebufferDimensionsObject:=null")
            /\ Before(effects', "notify onXRSessionEnded", "restoreDefaultFramebuffer")
            /\ Before(effects', "notify onXRSessionEnded", "customAnimationFrameRequester:=null")
            /\ Before(effects', "notify onXRSessionEnded", "engine._renderLoop")
            /\ framebufferDimensionsObject' = "null"
            /\ customAnimationFrameRequester' = "null"
            /\ windowFrameQueued' = TRUE
            /\ \A s \in Sessions : endHandlerRuns'[s] <= 1]_vars

C4_Witness ==
    /\ LastOp = "end listener"
    /\ notified.to # {}
    /\ notified.requester = "xr"
    /\ ~notified.windowFrameQueued
    /\ customAnimationFrameRequester = "null"
    /\ windowFrameQueued

\* C5: the end listener disposes the active provider iff the context is
\* native; afterwards wrapper and provider are null, so the texture getters
\* give null and trySetViewportForView gives false, until updateRenderState
\* is called with a base layer.
C5_EndListenerProvider ==
    [][/\ LastOp' = "end listener"
            => /\ (Count(effects', "provider.dispose") = 1)
                      <=> (isNative /\ baseLayerRTTProvider # "null")
               /\ Count(effects', "provider.dispose") <= 1
               /\ baseLayerRTTProvider' = "null"
               /\ baseLayerWrapper' = "null"
       /\ baseLayerRTTProvider' = "null"
            => \A answer \in {"texture", "null"} :
                  /\ getRenderTargetTextureForEye(baseLayerRTTProvider', answer) = "null"
                  /\ getRenderTargetTextureForView(baseLayerRTTProvider', answer) = "null"
                  /\ trySetViewportForView(baseLayerRTTProvider', answer = "texture") = FALSE
       /\ (baseLayerRTTProvider = "null" /\ baseLayerRTTProvider' # "null")
            => /\ LastOp' = "updateRenderState"
               /\ renderState' = "state+baseLayer"]_vars

C5_Witness ==
    /\ LastOp = "end listener"
    /\ isNative
    /\ Count(effects, "provider.dispose") = 1
    /\ baseLayerRTTProvider = "null"
    /\ baseLayerWrapper = "null"

\* C6: in a browser (non-native) context no provider is ever disposed.
C6_NoDisposeInBrowser == ~isNative => ~providerDisposed

C9_RejectionLeavesFlagFalse ==
    [][LastOp' = "requestSession rejected"
         => /\ inXRSession' = FALSE
            /\ UNCHANGED << session, sessionMode, initFired, endListener >>
            /\ notified'.obs = "none"
            /\ Count(effects', "requestSession") = 0]_vars

\* C9, amended: after a rejected requestSession the in-session flag is what
\* it was before (false when no session was active), session and mode are
\* unchanged, nothing is notified, no listener is registered and
\* requestSession is not called again: each initializeSessionAsync call makes
\* exactly one requestSession call.
C9_RejectionChangesNothing ==
    [][/\ LastOp' = "requestSession rejected"
            => /\ UNCHANGED << inXRSession, session, sessionMode, initFired, endListener >>
               /\ notified'.obs = "none"
               /\ Count(effects', "requestSession") = 0
               /\ effects'[Len(effects')] = "reject"
               /\ RequestsInUse' = RequestsInUse - 1
       /\ LastOp' = "initializeSessionAsync"
            => /\ Count(effects', "requestSession") = 1
               /\ RequestsInUse' = RequestsInUse + 1]_vars

C9_Witness ==
    /\ LastOp = "requestSession rejected"
    /\ inXRSession
    /\ session # NoSession
    /\ sessState[session] = "active"

\* C10: when setReferenceSpaceTypeAsync(T) resolves, baseReferenceSpace and
\* referenceSpace are the value the call resolved with, which is the space
\* granted for T or the compensated viewer space, and viewerReferenceSpace is
\* a granted viewer space.
C10_ResolvedReferenceSpace ==
    LastOp = "setReferenceSpaceTypeAsync resolved"
        => /\ referenceSpace = baseReferenceSpace
           /\ referenceSpace = notified.space
           /\ notified.space # NoSpace
           /\ \/ notified.space = Space(notified.mode, notified.space.sess)
              \/ /\ notified.space.type = "viewer"
                 /\ notified.space.offset # 0
           /\ viewerReferenceSpace.type = "viewer"
           /\ viewerReferenceSpace.offset = 0
           /\ viewerReferenceSpace.sess \in Sessions

C10_Witness ==
    /\ LastOp = "setReferenceSpaceTypeAsync resolved"
    /\ notified.mode = "local-floor"
    /\ referenceSpace.type = "viewer"
    /\ referenceSpace.offset = 0 - DefaultHeightCompensation
    /\ baseReferenceSpace = referenceSpace
    /\ BagCardinality(refCalls) > 0

----------------------------------------------------------------------------
\* The calls of setReferenceSpaceTypeAsync that a step started or moved on
\* (NewCalls) and the ones it took out of their previous phase (DoneCalls).
NewCalls == BagToSet(refCalls' (-) refCalls)

DoneCalls == BagToSet(refCalls (-) refCalls')

\* C11: when the named type is rejected the viewer space is requested; when
\* that is granted, the space the call carries, and then stores as base and
\* current, is the granted viewer space offset vertically by minus the value
\* defaultHeightCompensation has when the fallback is granted; a granted
\* named type is carried and stored without offset.
C11_FallbackOffset ==
    [][ /\ LastOp' = "requestReferenceSpace rejected"
            => /\ NewCalls # {}
               /\ \A d \in NewCalls : d.phase = "fallback"
               /\ Count(effects', "requestReferenceSpace viewer") = 1
        /\ LastOp' = "viewer fallback granted"
            => /\ NewCalls # {}
               /\ \A d \in NewCalls :
                     d.value = [type |-> "viewer", sess |-> session,
                                offset |-> 0 - defaultHeightCompensation]
        /\ LastOp' = "requestReferenceSpace granted"
            => /\ NewCalls # {}
               /\ \A d \in NewCalls : d.value = [type |-> d.asked, sess |-> session,
                                                 offset |-> 0]
        /\ LastOp' = "viewer granted"
            => /\ NewCalls # {}
               /\ \A d \in NewCalls : \A c \in DoneCalls : d.value = c.value
        /\ LastOp' = "setReferenceSpaceTypeAsync resolved"
            => /\ DoneCalls # {}
               /\ \A c \in DoneCalls : /\ referenceSpace' = c.value
                                        /\ baseReferenceSpace' = c.value
      ]_vars

\* A call resolved with the viewer space offset by a height that was changed
\* back to the default after the fallback was granted.
C11_Witness ==
    /\ LastOp = "setReferenceSpaceTypeAsync resolved"
    /\ referenceSpace.type = "viewer"
    /\ referenceSpace.offset # 0 - DefaultHeightCompensation
    /\ referenceSpace.offset # 0
    /\ defaultHeightCompensation = DefaultHeightCompensation
    /\ baseReferenceSpace = referenceSpace

\* C12: when the named request and the viewer fallback are both rejected,
\* the call rejects after two requestReferenceSpace calls in total, without
\* another attempt; referenceSpace, baseReferenceSpace and
\* viewerReferenceSpace are unchanged and no notification is sent.
C12_BothRejected ==
    [][ LastOp' = "viewer fallback rejected"
            => /\ DoneCalls # {}
               /\ \A c \in DoneCalls : c.phase = "fallback" /\ c.requests = 2
               /\ NewCalls = {}
               /\ Count(effects', "reject") = 1
               /\ Count(effects', "requestReferenceSpace") = 0
               /\ Count(effects', "requestReferenceSpace viewer") = 0
               /\ referenceSpace' = referenceSpace
               /\ baseReferenceSpace' = baseReferenceSpace
               /\ viewerReferenceSpace' = viewerReferenceSpace
               /\ notified'.obs = "none"
      ]_vars

\* A call rejected after an earlier call had stored the three spaces and
\* while an observer is registered.
C12_Witness ==
    /\ LastOp = "viewer fallback rejected"
    /\ referenceSpace # NoSpace
    /\ baseReferenceSpace # NoSpace
    /\ viewerReferenceSpace # NoSpace
    /\ onXRReferenceSpaceChanged # {}

\* C13: a call of setReferenceSpaceTypeAsync rejects only when the request
\* for the named type and the viewer fallback were both rejected; the
\* outcome of the additional viewer request of line 409 never rejects it.
C13_RejectsOnlyWhenBothRejected ==
    (LastOp \in {"viewer fallback rejected", "viewer rejected"} /\ Count(effects, "reject") > 0)
        => LastOp = "viewer fallback rejected"

\* The operations that write referenceSpace.
ReferenceSpaceWrites ==
    {"referenceSpace setter", "resetReferenceSpace", "setReferenceSpaceTypeAsync resolved"}

\* C14: every write to referenceSpace (direct assignment, resetReferenceSpace,
\* a call of setReferenceSpaceTypeAsync that resolves) stores the written
\* value and sends one notification carrying it to the observers registered
\* at the time, also when the value is the one stored already; the stored
\* value changes in no other step.
C14_WritesNotify ==
    [][ /\ LastOp' \in ReferenceSpaceWrites
            => /\ referenceSpace' = notified'.written
               /\ notified'.obs = "onXRReferenceSpaceChanged"
               /\ notified'.space = notified'.written
               /\ notified'.to = onXRReferenceSpaceChanged
               /\ Count(effects', "notify onXRReferenceSpaceChanged") = 1
        /\ referenceSpace' # referenceSpace
            => /\ LastOp' \in ReferenceSpaceWrites
               /\ notified'.obs = "onXRReferenceSpaceChanged"
      ]_vars

\* A direct assignment of the value stored already (no other value written
\* from outside equals the base space), notified to an observer.
C14_Witness ==
    /\ LastOp = "referenceSpace setter"
    /\ referenceSpace # NoSpace
    /\ referenceSpace = baseReferenceSpace
    /\ notified.obs = "onXRReferenceSpaceChanged"
    /\ notified.to # {}
    /\ notified.space = referenceSpace

\* C15: resetReferenceSpace makes referenceSpace equal to baseReferenceSpace,
\* which only a resolving setReferenceSpaceTypeAsync assigns, leaves
\* baseReferenceSpace and viewerReferenceSpace unchanged, and a second call
\* right after the first changes nothing.
C15_Reset ==
    [][ /\ LastOp' = "resetReferenceSpace"
            => /\ referenceSpace' = baseReferenceSpace
               /\ baseReferenceSpace' = baseReferenceSpace
               /\ viewerReferenceSpace' = viewerReferenceSpace
        /\ (LastOp = "resetReferenceSpace" /\ LastOp' = "resetReferenceSpace")
            => /\ referenceSpace' = referenceSpace
               /\ notified' = notified
        /\ baseReferenceSpace' # baseReferenceSpace
            => /\ LastOp' = "setReferenceSpaceTypeAsync resolved"
               /\ baseReferenceSpace' = notified'.written
      ]_vars

\* A reset that took back a value written from outside: the base space is
\* the compensated viewer space and the current space equals it again.
C15_Witness ==
    /\ LastOp = "resetReferenceSpace"
    /\ baseReferenceSpace.type = "viewer"
    /\ baseReferenceSpace.offset = 0 - DefaultHeightCompensation
    /\ referenceSpace = baseReferenceSpace
    /\ viewerReferenceSpace # NoSpace
    /\ notified.to # {}

\* C16: a tick delivered to the render function while inXRSession is true
\* stores its frame handle and timestamp in currentFrame and
\* currentTimestamp, sets the engine's framebufferDimensionsObject from the
\* provider and inXRFrameLoop to true, notifies the frame observers, then runs
\* the engine render pass, and afterwards framebufferDimensionsObject is null
\* and inXRFrameLoop false; a tick delivered while inXRSession is false
\* changes none of these and notifies nobody.
C16_FrameTick ==
    [][ LastOp' = "renderFunction"
            => IF inXRSession
               THEN /\ currentFrame' = notified'.frame
                    /\ currentTimestamp' = notified'.timestamp
                    /\ notified'.obs = "onXRFrameObservable"
                    /\ notified'.dims = (IF baseLayerRTTProvider = "null" THEN "null"
                                                                         ELSE "dims")
                    /\ notified'.inXRFrameLoop
                    /\ Before(effects', "currentFrame:=", "notify onXRFrameObservable")
                    /\ Before(effects', "currentTimestamp:=", "notify onXRFrameObservable")
                    /\ Before(effects', "inXRFrameLoop:=true", "notify onXRFrameObservable")
                    /\ Before(effects', "framebufferDimensionsObject:=dims",
                              "notify onXRFrameObservable")
                    /\ Before(effects', "notify onXRFrameObservable", "engine._renderLoop")
                    /\ Before(effects', "engine._renderLoop",
                              "framebufferDimensionsObject:=null")
                    /\ Before(effects', "engine._renderLoop", "inXRFrameLoop:=false")
                    /\ framebufferDimensionsObject' = "null"
                    /\ inXRFrameLoop' = FALSE
               ELSE /\ currentFrame' = currentFrame
                    /\ currentTimestamp' = currentTimestamp
                    /\ framebufferDimensionsObject' = framebufferDimensionsObject
                    /\ inXRFrameLoop' = inXRFrameLoop
                    /\ notified'.obs = "none"
      ]_vars

\* A frame with a provider installed and an observer registered, whose
\* handle and timestamp are the stored ones.
C16_Witness ==
    /\ LastOp = "renderFunction"
    /\ notified.obs = "onXRFrameObservable"
    /\ notified.to # {}
    /\ notified.dims = "dims"
    /\ notified.frame = "frameB"
    /\ currentFrame = "frameB"
    /\ currentTimestamp = notified.timestamp
    /\ framebufferDimensionsObject = "null"

\* C17: while inXRSession is true and the XR render loop is installed, every
\* tick sends one frame notification, in the step of that tick and with
\* that tick's frame, to all the observers registered then, before the one
\* engine render pass of the tick; no other step sends a frame notification.
C17_OneNotificationPerTick ==
    [][ /\ (LastOp' = "renderFunction" /\ inXRSession)
            => /\ Count(effects', "notify onXRFrameObservable") = 1
               /\ Count(effects', "engine._renderLoop") = 1
               /\ Before(effects', "notify onXRFrameObservable", "engine._renderLoop")
               /\ notified'.obs = "onXRFrameObservable"
               /\ notified'.to = onXRFrameObservable \cup frameOnce
               /\ notified'.frame \in Frames
               /\ notified'.frame = currentFrame'
        /\ notified'.obs = "onXRFrameObservable" => LastOp' = "renderFunction"
      ]_vars

\* A frame of the second session notified to an observer while the XR loop
\* is installed.
C17_Witness ==
    /\ LastOp = "renderFunction"
    /\ notified.obs = "onXRFrameObservable"
    /\ notified.to # {}
    /\ notified.sess = 2
    /\ customAnimationFrameRequester = "xr"
    /\ inXRSession

\* What runInXRFrame and the frames do with a callback, apart from the ways
\* a waiting callback stops waiting.
RunInXRFrameSteps ==
    /\ (LastOp' = "runInXRFrame" /\ (inXRSession \/ effects'[2] = "ignoreIfNotInSession=false"))
            => /\ frameOnce \subseteq frameOnce'
               /\ Cardinality(frameOnce' \ frameOnce) = 1
               /\ callbackRuns' = callbackRuns
    /\ (LastOp' = "runInXRFrame" /\ ~inXRSession /\ effects'[2] = "ignoreIfNotInSession=true")
            => /\ frameOnce' = frameOnce
               /\ callbackRuns' = callbackRuns
    /\ (LastOp' = "renderFunction" /\ Count(effects', "runInXRFrame") > 0)
            => /\ notified'.inXRFrameLoop
               /\ Before(effects', "runInXRFrame", "callback")
               /\ Before(effects', "callback", "engine._renderLoop")
               /\ \E c \in Callbacks : /\ callbackRuns[c] = 0
                                        /\ callbackRuns'[c] = 1
                                        /\ c \notin frameOnce'
    /\ (LastOp' = "renderFunction" /\ notified'.obs = "onXRFrameObservable")
            => \A c \in frameOnce : /\ callbackRuns'[c] = callbackRuns[c] + 1
                                    /\ c \notin frameOnce'
                                    /\ c \in notified'.to
    /\ callbackRuns' # callbackRuns => LastOp' = "renderFunction"
    /\ \A c \in Callbacks : callbackRuns'[c] <= 1

\* C18 (as claimed): runInXRFrame runs the callback at once while
\* inXRFrameLoop is true; otherwise, with inXRSession true or
\* ignoreIfNotInSession false, the callback waits and is run once by the next
\* frame notification, and never again; otherwise it is never run.  A
\* waiting callback stops waiting only by being run.
C18_RunsOnNextFrame ==
    [][ /\ RunInXRFrameSteps
        /\ \A c \in frameOnce \ frameOnce' :
                /\ LastOp' = "renderFunction"
                /\ callbackRuns'[c] = callbackRuns[c] + 1
      ]_vars

\* C18 (amended): the same, except that dispose, which clears
\* onXRFrameObservable, drops the waiting callbacks without running them.
C18_RunsOnNextFrameUnlessDisposed ==
    [][ /\ RunInXRFrameSteps
        /\ \A c \in frameOnce \ frameOnce' :
                \/ /\ LastOp' = "renderFunction"
                   /\ callbackRuns'[c] = callbackRuns[c] + 1
                \/ /\ LastOp' = "dispose"
                   /\ callbackRuns'[c] = callbackRuns[c]
      ]_vars

\* A frame of the second session ran a waiting callback, once.
C18_Witness ==
    /\ LastOp = "renderFunction"
    /\ Count(effects, "callback") = 1
    /\ Count(effects, "runInXRFrame") = 0
    /\ callbackRuns["cb"] = 1
    /\ "cb" \in notified.to
    /\ frameOnce = {}
    /\ notified.sess = 2

\* C19: dispose(all) clears the frame, reference-space-changed and
\* session-init observer lists in every case; it clears the render target,
\* the render state and the session-ended observer list when all is true or
\* the manager is not persistent, and leaves the three as they are otherwise.
C19_DisposeClears ==
    [][ LastOp' = "dispose"
            => /\ onXRFrameObservable' = {}
               /\ frameOnce' = {}
               /\ onXRReferenceSpaceChanged' = {}
               /\ onXRSessionInit' = {}
               /\ IF effects'[2] = "all=true" \/ ~persistent
                  THEN /\ renderTarget' = "null"
                       /\ renderState' = "null"
                       /\ onXRSessionEnded' = {}
                  ELSE /\ renderTarget' = renderTarget
                       /\ renderState' = renderState
                       /\ onXRSessionEnded' = onXRSessionEnded
      ]_vars

\* dispose(false) on a persistent manager in a session kept the render
\* target, the render state and the session-ended observer.
C19_Witness ==
    /\ LastOp = "dispose"
    /\ effects[2] = "all=false"
    /\ persistent
    /\ inXRSession
    /\ renderTarget = "target"
    /\ renderState = "state"
    /\ onXRSessionEnded # {}
    /\ onXRSessionInit = {}

\* C20: dispose(all) called while inXRSession is true, when all is true or
\* the manager is not persistent, sets inXRSession to false and calls
\* session.end() before it clears any observer list or reference; when the
\* manager is persistent and all is false it does not call session.end() and
\* inXRSession stays true.
C20_DisposeEndsSession ==
    [][ (LastOp' = "dispose" /\ inXRSession)
            => IF effects'[2] = "all=true" \/ ~persistent
               THEN /\ ~inXRSession'
                    /\ session # NoSession
                    /\ endCalls'[session] = endCalls[session] + 1
                    /\ Count(effects', "session.end") = 1
                    /\ Before(effects', "inXRSession:=false", "onXRFrameObservable.clear")
                    /\ \A e \in {"onXRFrameObservable.clear",
                                  "onXRReferenceSpaceChanged.clear", "onXRSessionInit.clear",
                                  "_renderTarget:=null", "_renderState:=null",
                                  "onXRSessionEnded.clear"} :
                          Before(effects', "session.end", e)
               ELSE /\ inXRSession'
                    /\ endCalls' = endCalls
                    /\ Count(effects', "session.end") = 0
      ]_vars

\* dispose(true) on a persistent manager asked the active session to end.
C20_Witness ==
    /\ LastOp = "dispose"
    /\ effects[2] = "all=true"
    /\ persistent
    /\ ~inXRSession
    /\ session # NoSession
    /\ sessState[session] = "active"
    /\ endCalls[session] = 1
    /\ Count(effects, "session.end") = 1

\* C21: the fixedFoveation setter clamps before storing: for every written
\* value v (null counts as 0) a wrapper that supports fixed foveation stores
\* max(0, min(1, v)), so -0.5 is stored as 0, 1.5 as 1 and 0.4 as 0.4; with
\* no layer wrapper installed the write stores nothing and raises no error.
C21_SetterClamps ==
    [][ LastOp' = "fixedFoveation setter"
            => LET v == notified'.number
                   clamped == IF v = NullNumber \/ v < 0 THEN 0
                              ELSE IF v > 10 THEN 10 ELSE v
               IN  /\ \A i \in 1..Len(effects') : effects'[i] # "throw TypeError"
                   /\ IF baseLayerWrapper = "null"
                      THEN /\ layerFoveation' = layerFoveation
                           /\ effects' = << "fixedFoveation setter" >>
                      ELSE /\ effects'[2] = "_baseLayerWrapper.fixedFoveation:="
                           /\ layerFoveation # NullNumber => layerFoveation' = clamped
                           /\ layerFoveation = NullNumber => layerFoveation' = NullNumber
      ]_vars

\* 1.5 was written through an installed wrapper and 1 is stored.
C21_Witness ==
    /\ LastOp = "fixedFoveation setter"
    /\ notified.number = 15
    /\ baseLayerWrapper # "null"
    /\ layerFoveation = 10

\* C22: the fixedFoveation getter returns null only when fixed foveation is
\* not supported (no layer wrapper, or the wrapper reports null); on a
\* wrapper that supports it the getter returns the stored level, which is the
\* clamped value of the last write, also when that value is 0.
C22_GetterReadsStoredLevel ==
    LastOp = "fixedFoveation getter"
        => notified.number = IF baseLayerWrapper = "null" THEN NullNumber
                             ELSE layerFoveation

\* C23: IsSessionSupportedAsync never throws and never rejects: it resolves
\* false when navigator.xr is absent, when neither isSessionSupported nor
\* supportsSession exists and when the probe's promise rejects; otherwise it
\* resolves with the probe's boolean result.
C23_ProbeNeverRejects ==
    /\ LastOp = "IsSessionSupportedAsync"
        => /\ Count(effects, "reject") = 0
           /\ Count(effects, "throw TypeError") = 0
           /\ IF navigatorXR = "absent" \/ effects[2] = "none"
              THEN effects[Len(effects)] = "resolve false"
              ELSE /\ effects[Len(effects)] = "call " \o effects[2]
                   /\ probes[notified.mode] > 0
    /\ LastOp = "IsSessionSupportedAsync settled"
        => /\ Count(effects, "reject") = 0
           /\ Count(effects, "throw TypeError") = 0
           /\ effects[2] \in {"probe reject", "probe false"}
                => effects[Len(effects)] = "resolve false"
           /\ effects[2] = "probe true" => effects[Len(effects)] = "resolve true"

\* A probe's promise was rejected and the call resolved false.
C23_Witness ==
    /\ LastOp = "IsSessionSupportedAsync settled"
    /\ effects[2] = "probe reject"
    /\ effects[Len(effects)] = "resolve false"
    /\ navigatorXR # "absent"

\* C24: initializeAsync rejects when navigator.xr is absent and resolves
\* when it is present, whatever earlier calls did (a second call without
\* navigator.xr rejects again), and a call changes no session state: after a
\* rejected call inXRSession is false and no session is stored.
C24_InitializeOutcome ==
    [][ LastOp' = "initializeAsync"
            => /\ effects'[2] = IF navigatorXR = "absent" THEN "reject" ELSE "resolve"
               /\ UNCHANGED << managerVars, platformVars, engineVars, observerVars >>
               /\ navigatorXR = "absent" => ~inXRSession' /\ session' = NoSession
      ]_vars

\* A call without navigator.xr was rejected and left the manager without a
\* session.
C24_Witness ==
    /\ LastOp = "initializeAsync"
    /\ effects[2] = "reject"
    /\ navigatorXR = "absent"
    /\ xrNavigator
    /\ ~inXRSession
    /\ session = NoSession

\* The two steps of a moveXRToScene call, and the last statements of a step
\* that did not reach the end of the method: it was suspended at
\* initializeXRLayerAsync, or cut short by a rejection or an exception.
MoveSteps == {"moveXRToScene", "moveXRToScene resumed"}

MoveCutShort == {"initializeXRLayerAsync", "reject", "throw TypeError"}

\* C25: moveXRToScene assigns scene = nextScene first; a call that runs to
\* its end then calls hookUp exactly once, then sends the session-moved
\* notification exactly once, then sends a session-initialised notification
\* if and only if inXRSession is true, so the observers hookUp registered
\* on onXRSessionMoved and onXRSessionInit receive them; with no session
\* running no session-initialised notification is sent.
C25_MoveOrder ==
    [][ /\ LastOp' = "moveXRToScene"
            => /\ effects'[3] = "scene:="
               /\ effects'[2] = "nextScene=" \o scene'
               /\ ~inXRSession => effects'[Len(effects')] \notin MoveCutShort
        /\ (LastOp' \in MoveSteps /\ effects'[Len(effects')] \notin MoveCutShort)
            => /\ Count(effects', "hookUp") = 1
               /\ Count(effects', "notify onXRSessionMoved") = 1
               /\ Before(effects', "hookUp", "notify onXRSessionMoved")
               /\ LastOp' = "moveXRToScene" => Before(effects', "scene:=", "hookUp")
               /\ Count(effects', "notify onXRSessionInit") = IF inXRSession THEN 1 ELSE 0
               /\ inXRSession
                    => /\ Before(effects', "notify onXRSessionMoved", "notify onXRSessionInit")
                       /\ initFired'[session]
               /\ notified'.obs = "onXRSessionMoved"
               /\ notified'.sess = session
               /\ notified'.to = onXRSessionMoved'
               /\ (onXRSessionMoved' \ onXRSessionMoved) \subseteq notified'.to
               /\ notified'.also = IF inXRSession THEN onXRSessionInit' ELSE {}
               /\ inXRSession => (onXRSessionInit' \ onXRSessionInit) \subseteq notified'.also
        /\ (LastOp' \in MoveSteps /\ effects'[Len(effects')] \in MoveCutShort)
            => /\ Count(effects', "hookUp") = 0
               /\ Count(effects', "notify onXRSessionMoved") = 0
               /\ Count(effects', "notify onXRSessionInit") = 0
               /\ notified' = NoNotification
      ]_vars

\* A move made in a session ran to its end: the observer hookUp registered
\* received the session-moved and the session-initialised notification.
C25_Witness ==
    /\ LastOp = "moveXRToScene resumed"
    /\ inXRSession
    /\ scene = "sceneB"
    /\ notified.obs = "onXRSessionMoved"
    /\ "o1" \in notified.to
    /\ "o1" \in notified.also
    /\ Before(effects, "hookUp", "notify onXRSessionMoved")
    /\ Before(effects, "notify onXRSessionMoved", "notify onXRSessionInit")

\* C26: moveXRToScene called in a session with a retained render state
\* creates a render target only if none is held and, when resumed, applies
\* the retained render state again with updateRenderState, which commits it
\* to the session; the state's baseLayer is replaced by the new layer only
\* when the session's enabled features lack the layers feature and is left
\* as it was otherwise.
C26_MoveReappliesRenderState ==
    [][ /\ (LastOp' = "moveXRToScene" /\ inXRSession /\ renderState # "null")
            => /\ Count(effects', "getWebXRRenderTarget")
                    = IF renderTarget = "null" THEN 1 ELSE 0
               /\ Count(effects', "updateRenderTarget")
                    = IF renderTarget = "null" THEN 1 ELSE 0
               /\ renderTarget' = "target"
               /\ effects'[Len(effects')] = "initializeXRLayerAsync"
               /\ renderState' = renderState
        /\ (LastOp' = "moveXRToScene" /\ ~(inXRSession /\ renderState # "null"))
            => /\ Count(effects', "getWebXRRenderTarget") = 0
               /\ Count(effects', "initializeXRLayerAsync") = 0
               /\ UNCHANGED << renderTarget, renderState >>
        /\ (LastOp' = "moveXRToScene resumed" /\ effects'[2] # "reject"
                /\ renderState # "null")
            => /\ Count(effects', "updateRenderState") = 1
               /\ Count(effects', "session.updateRenderState") = 1
               /\ IF effects'[2] = "no layers feature"
                  THEN /\ renderState' = "state+movedLayer"
                       /\ Count(effects', "_renderState.baseLayer:=") = 1
                  ELSE /\ renderState' = renderState
                       /\ Count(effects', "_renderState.baseLayer:=") = 0
      ]_vars

\* A move was resumed in a session whose features include layers: the
\* retained state was committed again with the base layer it had.
C26_Witness ==
    /\ LastOp = "moveXRToScene resumed"
    /\ effects[2] = "layers feature enabled"
    /\ renderState = "state+baseLayer"
    /\ renderTarget = "target"
    /\ Count(effects, "session.updateRenderState") = 1

\* C28: moveXRToScene called on a manager that is not persistent
\* (constructed from a scene) is rejected and changes neither the manager's
\* scene nor its render state nor its observer lists.
C28_NonPersistentMoveRejected ==
    [][ (LastOp' = "moveXRToScene" /\ ~persistent)
            => /\ Count(effects', "reject") = 1
               /\ scene' = scene
               /\ renderState' = renderState
               /\ UNCHANGED << observerVars, onXRSessionMoved >>
      ]_vars

\* C27: WebXRDefaultExperience.moveXRToScene on an experience that was not
\* created as persistent rejects and leaves all state as it was: nothing is
\* disposed, the base experience is not migrated, no input or feature is
\* created, and the session manager's scene and observers are unchanged.
C27_NonPersistentExperienceMove ==
    [][ (LastOp' = "experience.moveXRToScene" /\ ~experience.persistent)
            => /\ effects'[Len(effects')] = "reject"
               /\ Count(effects', "experience.dispose") = 0
               /\ Count(effects', "baseExperience.moveXRToScene") = 0
               /\ UNCHANGED << experience, pendingBaseMove, managerVars, observerVars,
                               moveVars, platformVars, engineVars >>
      ]_vars

\* A move was asked of an experience made by CreateAsync, in a session, and
\* was rejected.
C27_Witness ==
    /\ LastOp = "experience.moveXRToScene"
    /\ experience.created
    /\ ~experience.persistent
    /\ experience.input = 1
    /\ experience.disposed = {}
    /\ inXRSession
    /\ scene = "sceneA"
    /\ effects[Len(effects)] = "reject"

\* C29: on a persistent experience moveXRToScene first runs dispose(false),
\* which disposes neither the enter/exit UI nor the render target and does
\* not end a running session, then starts the base experience's migration;
\* only when that has completed it runs _initializeScene (new input and
\* features) and after it the session manager's moveXRToScene with hookUp.
C29_ExperienceMoveOrder ==
    [][ /\ (LastOp' = "experience.moveXRToScene" /\ experience.persistent)
            => /\ effects'[3] = "experience.dispose"
               /\ effects'[4] = "all=false"
               /\ Count(effects', "enterExitUI.dispose") = 0
               /\ Count(effects', "renderTarget.dispose") = 0
               /\ experience'.disposed \ experience.disposed \subseteq {"input"}
               /\ Count(effects', "session.end") = 0
               /\ inXRSession' = inXRSession
               /\ endCalls' = endCalls
               /\ Count(effects', "_initializeScene") = 0
               /\ Count(effects', "sessionManager.moveXRToScene") = 0
               /\ scene' = scene
               /\ experience'.initializations = experience.initializations
               /\ experience.baseExperience
                    => /\ effects'[Len(effects')] = "baseExperience.moveXRToScene"
                       /\ BagCardinality(pendingBaseMove')
                            = BagCardinality(pendingBaseMove) + 1
        /\ (LastOp' = "experience.moveXRToScene resumed"
                /\ effects'[Len(effects')] = "resolve")
            => /\ Before(effects', "baseExperience migrated", "_initializeScene")
               /\ Before(effects', "_initializeScene", "input")
               /\ Before(effects', "input", "sessionManager.moveXRToScene")
               /\ Before(effects', "sessionManager.moveXRToScene", "scene:=")
               /\ experience'.input = experience.initializations + 1
               /\ "input" \notin experience'.disposed
               /\ effects'[2] = "nextScene=" \o scene'
               /\ experience'.baseScene = scene'
               /\ \/ Count(effects', "hookUp") = 1
                  \/ BagCardinality(pendingLayerInit') = BagCardinality(pendingLayerInit) + 1
        /\ (LastOp' = "experience.moveXRToScene resumed"
                /\ effects'[Len(effects')] # "resolve")
            => /\ Count(effects', "sessionManager.moveXRToScene") = 0
               /\ Count(effects', "hookUp") = 0
               /\ scene' = scene
      ]_vars

\* A persistent experience with an enter/exit UI was moved in a session:
\* the UI is not disposed, a new input exists and the session manager's
\* migration is under way.
C29_Witness ==
    /\ LastOp = "experience.moveXRToScene resumed"
    /\ effects[Len(effects)] = "resolve"
    /\ experience.persistent
    /\ inXRSession
    /\ experience.enterExitUI
    /\ experience.disposed = {}
    /\ experience.input >= 1
    /\ scene = "sceneB"
    /\ BagCardinality(pendingLayerInit) = 1

\* C30: the promise of CreateAsync and of CreatePersistentAsync never
\* rejects: for a failure at any step (base experience, scene
\* initialisation, render target, UI) it resolves with the experience, in
\* which exactly the sub-modules assigned before the failing step are set.
C30_CreateNeverRejects ==
    [][ LastOp' \in {"CreateAsync", "CreatePersistentAsync"}
            => LET e == experience'
                   f == effects'[2]
                   o == e.options
                   base == navigatorXR # "absent" /\ f # "failAt=base"
                   input == base /\ LastOp' = "CreateAsync" /\ f # "failAt=input"
                   pointerWanted == "disablePointerSelection" \notin o
                   pointer == input /\ pointerWanted /\ f # "failAt=pointerSelection"
                   teleWanted == pointerWanted /\ "disableTeleportation" \notin o
                   tele == pointer /\ teleWanted /\ f # "failAt=teleportation"
                   pointerDone == input /\ (pointerWanted => pointer) /\ (teleWanted => tele)
                   nearWanted == "disableNearInteraction" \notin o
                   near == pointerDone /\ nearWanted /\ f # "failAt=nearInteraction"
                   sceneDone == IF LastOp' = "CreateAsync"
                                THEN pointerDone /\ (nearWanted => near)
                                ELSE base
                   target == sceneDone /\ f # "failAt=renderTarget"
                   uiWanted == "disableDefaultUI" \notin o
                   ui == target /\ uiWanted /\ f # "failAt=ui"
                   all == target /\ (uiWanted => ui /\ f # "failAt=setHelper")
               IN  /\ Count(effects', "reject") = 0
                   /\ effects'[Len(effects')] = "resolve result"
                   /\ Count(effects', "Logger.Error") = IF all THEN 0 ELSE 1
                   /\ e.created
                   /\ e.baseExperience = base
                   /\ (e.input # 0) = input
                   /\ (e.pointerSelection # 0) = pointer
                   /\ (e.teleportation # 0) = tele
                   /\ (e.nearInteraction # 0) = near
                   /\ e.renderTarget = target
                   /\ e.enterExitUI = ui
      ]_vars

\* The creation of the render target failed in CreateAsync: the experience
\* was delivered with its base experience, input and pointer selection and
\* without render target and UI.
C30_Witness ==
    /\ LastOp = "CreateAsync"
    /\ effects[2] = "failAt=renderTarget"
    /\ effects[Len(effects)] = "resolve result"
    /\ experience.baseExperience
    /\ experience.input = 1
    /\ experience.pointerSelection = 1
    /\ ~experience.renderTarget
    /\ ~experience.enterExitUI

\* The options CreatePersistentAsync stores for an empty options object.
PersistentDefaults == {"disableTeleportation", "disableNearInteraction"}

\* C31: CreatePersistentAsync flags the experience as persistent; called
\* with an empty options object it stores options with disableTeleportation
\* and disableNearInteraction set, so that a later scene initialisation
\* enables neither teleportation nor near interaction; an options object
\* that is not empty is stored unchanged.
C31_PersistentDefaults ==
    [][ /\ LastOp' = "CreatePersistentAsync"
            => /\ experience'.persistent
               /\ experience'.options = IF notified'.options = {}
                                        THEN PersistentDefaults
                                        ELSE notified'.options
        /\ (LastOp' = "experience.moveXRToScene resumed"
                /\ experience.options = PersistentDefaults
                /\ Count(effects', "_initializeScene") = 1)
            => /\ Count(effects', "teleportation") = 0
               /\ Count(effects', "nearInteraction") = 0
               /\ Count(effects', "throw teleportation") = 0
               /\ experience'.teleportation = 0
               /\ experience'.nearInteraction = 0
               /\ experience'.pointerSelection = experience'.initializations
      ]_vars

\* An experience made by CreatePersistentAsync with its default options was
\* moved to a scene: pointer selection only.
C31_Witness ==
    /\ LastOp = "experience.moveXRToScene resumed"
    /\ experience.persistent
    /\ experience.options = PersistentDefaults
    /\ experience.input = 1
    /\ experience.pointerSelection = 1
    /\ experience.teleportation = 0
    /\ experience.nearInteraction = 0
    /\ effects[Len(effects)] = "resolve"

\* C32: WebXRDefaultExperience.dispose(all) disposes the base experience,
\* handing all on, and the input when they are present, and disposes the
\* enter/exit UI and the render target if and only if they are present and
\* all is true or the experience is not persistent.
C32_ExperienceDispose ==
    [][ LastOp' = "experience.dispose"
            => LET clear == effects'[2] = "all=true" \/ ~experience.persistent
                   gone == experience'.disposed
               IN  /\ Count(effects', "baseExperience.dispose")
                        = IF experience.baseExperience THEN 1 ELSE 0
                   /\ experience.baseExperience
                        => /\ effects'[3] = "baseExperience.dispose"
                           /\ effects'[4] = "dispose"
                           /\ effects'[5] = effects'[2]
                   /\ Count(effects', "input.dispose") = IF experience.input # 0 THEN 1 ELSE 0
                   /\ experience.input # 0 => "input" \in gone
                   /\ Count(effects', "enterExitUI.dispose")
                        = IF experience.enterExitUI /\ clear THEN 1 ELSE 0
                   /\ Count(effects', "renderTarget.dispose")
                        = IF experience.renderTarget /\ clear THEN 1 ELSE 0
                   /\ ("enterExitUI" \in gone)
                        = ("enterExitUI" \in experience.disposed
                            \/ (experience.enterExitUI /\ clear))
                   /\ ("renderTarget" \in gone)
                        = ("renderTarget" \in experience.disposed
                            \/ (experience.renderTarget /\ clear))
                   /\ experience.disposed \subseteq gone
      ]_vars

\* dispose(false) ran on a persistent experience that has a UI and a render
\* target: the base experience was disposed, UI and render target were not.
C32_Witness ==
    /\ LastOp = "experience.dispose"
    /\ effects[2] = "all=false"
    /\ experience.persistent
    /\ experience.enterExitUI
    /\ experience.renderTarget
    /\ experience.disposed = {}
    /\ Count(effects, "baseExperience.dispose") = 1

\* The last action ran _initializeScene to its end or up to its throw: the
\* creation by CreateAsync or the resumption of a move.
SceneInitialised ==
    \/ LastOp = "CreateAsync" /\ experience.baseExperience
    \/ LastOp = "experience.moveXRToScene resumed" /\ Count(effects, "_initializeScene") = 1

\* C33 as stated: scene initialisation enables pointer selection iff
\* disablePointerSelection is not set, teleportation iff neither
\* disablePointerSelection nor disableTeleportation is set, wired to the
\* pointer selection of the same initialisation, and near interaction iff
\* disableNearInteraction is not set.
C33_FeaturesFollowOptions ==
    SceneInitialised
        => LET n == experience.initializations
               o == experience.options
           IN  /\ (experience.pointerSelection = n) = ("disablePointerSelection" \notin o)
               /\ (experience.teleportation = n)
                    = ("disablePointerSelection" \notin o /\ "disableTeleportation" \notin o)
               /\ experience.teleportation = n => experience.selectionFeature = n
               /\ (experience.nearInteraction = n) = ("disableNearInteraction" \notin o)

\* C33, amended: as above on an experience that is not persistent; on a
\* persistent experience with neither disablePointerSelection nor
\* disableTeleportation set the initialisation creates input and pointer
\* selection and then throws, enabling neither teleportation nor near
\* interaction; on a persistent experience with one of the two set it
\* enables pointer selection and near interaction as above and no teleportation.
C33_FeaturesFollowOptionsUnlessPersistent ==
    SceneInitialised
        => LET n == experience.initializations
               o == experience.options
               pointer == "disablePointerSelection" \notin o
               teleport == pointer /\ "disableTeleportation" \notin o
               throws == experience.persistent /\ teleport
           IN  /\ experience.input = n
               /\ (experience.pointerSelection = n) = pointer
               /\ (experience.teleportation = n) = (teleport /\ ~throws)
               /\ experience.teleportation = n => experience.selectionFeature = n
               /\ (experience.nearInteraction = n)
                    = ("disableNearInteraction" \notin o /\ ~throws)
               /\ (Count(effects, "throw teleportation") = 1) = throws

\* A scene was initialised with no option set: teleportation is wired to
\* the pointer selection of that initialisation and near interaction is on.
C33_Witness ==
    /\ LastOp = "CreateAsync"
    /\ experience.options = {}
    /\ experience.pointerSelection = 1
    /\ experience.teleportation = 1
    /\ experience.selectionFeature = 1
    /\ experience.nearInteraction = 1

\* C34: when the promise returned by WebXRDefaultExperience.moveXRToScene
\* resolves, the session manager's migration has completed: hookUp has been
\* invoked and the session-moved notification (and, in a session, the
\* session-initialised notification) has fired.
C34_ResolvedAfterMigration ==
    (LastOp = "experience.moveXRToScene resumed" /\ effects[Len(effects)] = "resolve")
        => /\ Count(effects, "hookUp") = 1
           /\ Count(effects, "notify onXRSessionMoved") = 1
           /\ Count(effects, "notify onXRSessionInit") = (IF inXRSession THEN 1 ELSE 0)
           /\ Before(effects, "hookUp", "resolve")
           /\ Before(effects, "notify onXRSessionMoved", "resolve")

\* The stored options enable pointer selection and teleportation.
TeleportationRequested(exp) ==
    /\ ~Option(exp.options, "disablePointerSelection")
    /\ ~Option(exp.options, "disableTeleportation")

\* C35: on a persistent experience whose options disable neither pointer
\* selection nor teleportation, moveXRToScene first runs dispose(false) and
\* starts the base experience's migration without failing; when the
\* migration has taken effect, scene initialisation throws the teleportation
\* error and the promise rejects, and the session manager's migration is not
\* invoked: no hookUp, no session-moved notification, the manager's scene
\* and observers unchanged.
C35_PersistentTeleportationRejects ==
    [][ /\ (/\ LastOp' = "experience.moveXRToScene"
            /\ experience.persistent /\ experience.baseExperience
            /\ TeleportationRequested(experience))
            => /\ effects'[3] = "experience.dispose"
               /\ effects'[4] = "all=false"
               /\ effects'[Len(effects')] = "baseExperience.moveXRToScene"
               /\ Count(effects', "throw teleportation") = 0
               /\ Count(effects', "reject") = 0
               /\ BagCardinality(pendingBaseMove') = BagCardinality(pendingBaseMove) + 1
        /\ (/\ LastOp' = "experience.moveXRToScene resumed"
            /\ Count(effects', "baseExperience migrated") = 1
            /\ experience.persistent
            /\ TeleportationRequested(experience))
            => /\ BagCardinality(pendingBaseMove') = BagCardinality(pendingBaseMove) - 1
               /\ experience'.baseScene = "sceneB"
               /\ Before(effects', "baseExperience migrated", "_initializeScene")
               /\ Before(effects', "_initializeScene", "throw teleportation")
               /\ Count(effects', "throw teleportation") = 1
               /\ effects'[Len(effects')] = "reject"
               /\ Count(effects', "resolve") = 0
               /\ experience'.teleportation = experience.teleportation
               /\ Count(effects', "sessionManager.moveXRToScene") = 0
               /\ Count(effects', "hookUp") = 0
               /\ Count(effects', "notify onXRSessionMoved") = 0
               /\ notified' = NoNotification
               /\ scene' = scene
               /\ onXRSessionMoved' = onXRSessionMoved
               /\ onXRSessionInit' = onXRSessionInit
               /\ pendingLayerInit' = pendingLayerInit
      ]_vars

\* A persistent experience created with a non-empty options object that
\* keeps pointer selection and teleportation was moved: the base experience
\* is in the new scene, the call was rejected with the teleportation error
\* and the session manager was left in the old scene.
C35_Witness ==
    /\ LastOp = "experience.moveXRToScene resumed"
    /\ experience.persistent
    /\ TeleportationRequested(experience)
    /\ experience.baseScene = "sceneB"
    /\ scene # "sceneB"
    /\ Count(effects, "throw teleportation") = 1
    /\ effects[Len(effects)] = "reject"
    /\ onXRSessionMoved = {}

\* C36: a dispose with full teardown (all true, or a manager that is not
\* persistent) called in a session clears the session-ended observers while
\* the session's end event is still to come; the end listener notifies the
\* observers registered at the time of the event only, and in every case
\* resets the engine (framebufferDimensionsObject and
\* customAnimationFrameRequester null, default framebuffer restored) and
\* clears the layer wrapper and the provider.
C36_FullDisposeThenEnd ==
    [][ /\ (/\ LastOp' = "dispose"
            /\ inXRSession
            /\ (effects'[2] = "all=true" \/ ~persistent))
            => /\ Count(effects', "session.end") = 1
               /\ Before(effects', "session.end", "onXRSessionEnded.clear")
               /\ onXRSessionEnded' = {}
               /\ ~inXRSession'
               /\ sessState'[session] = "active"
               /\ endListener'[session]
               /\ endHandlerRuns' = endHandlerRuns
               /\ notified' = NoNotification
        /\ LastOp' = "end listener"
            => /\ notified'.obs = "onXRSessionEnded"
               /\ notified'.to = onXRSessionEnded
               /\ ~inXRSession'
               /\ framebufferDimensionsObject' = "null"
               /\ customAnimationFrameRequester' = "null"
               /\ Count(effects', "restoreDefaultFramebuffer") = 1
               /\ baseLayerWrapper' = "null"
               /\ baseLayerRTTProvider' = "null"
      ]_vars

\* The end event of a session left through dispose, on a native platform
\* with the XR frame driver and a provider installed: no observer is
\* notified, the engine is back on its default loop and the provider was
\* disposed and dropped.
C36_Witness ==
    /\ LastOp = "end listener"
    /\ session # NoSession
    /\ endCalls[session] = 1
    /\ sessState[session] = "ended"
    /\ notified.to = {}
    /\ notified.requester = "xr"
    /\ customAnimationFrameRequester = "null"
    /\ Count(effects, "provider.dispose") = 1
    /\ baseLayerRTTProvider = "null"
    /\ baseLayerWrapper = "null"

C38_ExitLeadsToEnded ==
    /\ [][ /\ LastOp' = "session.end settled"
               => /\ effects'[Len(effects')] = "resolve"
                  /\ Count(effects', "reject") = 0
                  /\ (effects'[2] = "rejected") = (Count(effects', "Logger.Warn") = 1)
           /\ (LastOp' = "exitXRAsync" /\ Count(effects', "session.end") = 0)
               => /\ effects'[Len(effects')] = "resolve"
                  /\ inXRSession' = inXRSession
           /\ \A s \in Sessions :
               /\ endHandlerRuns'[s] <= 1
               /\ (endHandlerRuns'[s] # endHandlerRuns[s])
                   => /\ sessState'[s] = "ended"
                      /\ notified'.obs = "onXRSessionEnded"
                      /\ customAnimationFrameRequester' = "null"
                      /\ windowFrameQueued'
                      /\ ~inXRSession'
          ]_vars
    /\ \A s \in Sessions :
            (endCalls[s] >= 1 /\ sessState[s] = "active")
                ~> (sessState[s] = "ended" /\ endHandlerRuns[s] = 1)

\* session.end() rejected for a session left through exitXRAsync while the
\* XR frame driver was installed: the promise of exitXRAsync resolved all the
\* same, the end listener has run once and the engine is on its default loop.
C38_Witness ==
    /\ LastOp = "session.end settled"
    /\ effects = << "session.end settled", "rejected", "catch", "Logger.Warn", "resolve" >>
    /\ session # NoSession
    /\ endCalls[session] = 1
    /\ endHandlerRuns[session] = 1
    /\ sessState[session] = "ended"
    /\ ~inXRSession
    /\ customAnimationFrameRequester = "null"
    /\ windowFrameQueued

\* C39: the end event of a session that is not the stored session (a later
\* initializeSessionAsync stored a newer one) leaves the manager alone:
\* inXRSession, the layer wrapper and the provider of the newer session and
\* the engine's custom frame requester are unchanged.
C39_StaleEndIgnored ==
    [][ \A s \in Sessions :
            ((endHandlerRuns'[s] # endHandlerRuns[s]) /\ s # session)
                => /\ inXRSession' = inXRSession
                   /\ baseLayerWrapper' = baseLayerWrapper
                   /\ baseLayerRTTProvider' = baseLayerRTTProvider
                   /\ customAnimationFrameRequester' = customAnimationFrameRequester
      ]_vars

\* C40: inXRFrameLoop is false whenever no call of the render function is
\* on the stack, and the framebufferDimensionsObject set for a tick is null
\* again after it, also after a tick in which a frame observer or the render
\* pass threw; runInXRFrame called outside a tick never runs its callback in
\* the call.
C40_FrameLoopFlagOnlyInTick ==
    [][ /\ ~inXRFrameLoop'
        /\ (/\ LastOp' = "renderFunction"
            /\ Count(effects', "framebufferDimensionsObject:=dims") = 1)
            => framebufferDimensionsObject' = "null"
        /\ LastOp' = "runInXRFrame"
            => /\ Count(effects', "callback") = 0
               /\ callbackRuns' = callbackRuns
      ]_vars

============================================================================
